---- MODULE Spec2Model ----
(***************************************************************************)
(* Sum-product belief propagation on discrete factor graphs                *)
(* (04_exact_inference notebook): Distribution, multiply, the factor graph *)
(* built by parse_model_into_variables_and_factors, PGM.set_distributions  *)
(* and the memoised message engine Messages.                               *)
(*                                                                         *)
(* Numbers.  The notebook computes with numpy floats.  The model computes  *)
(* with exact non-negative rationals <<n, d>> in lowest terms, so "equal"  *)
(* below means equal as exact numbers; <<0, 0>> stands for nan (0/0).      *)
(* Axis positions are 1-based here and 0-based in the notebook.            *)
(***************************************************************************)
EXTENDS Integers, Sequences, FiniteSets, TLC

(***************************************************************************)
(* Bounds of the model.                                                    *)
(***************************************************************************)
MaxRequests == 2

MaxSets == 1

MaxDepth == 9

MaxAdds == 2

(***************************************************************************)
(* Exact arithmetic standing for numpy's float *, + and /.                 *)
(***************************************************************************)
RECURSIVE Gcd(_, _)
Gcd(a, b) ==
    IF b = 0 THEN a ELSE Gcd(b, a % b)

Rat(n, d) ==
    IF d = 0 THEN <<0, 0>>
    ELSE LET g == Gcd(n, d) IN <<n \div g, d \div g>>

RZero == <<0, 1>>

ROne == <<1, 1>>

IsNan(q) == q[2] = 0

RMul(p, q) == Rat(p[1] * q[1], p[2] * q[2])

RAdd(p, q) == Rat(p[1] * q[2] + q[1] * p[2], p[2] * q[2])

RDiv(p, q) == Rat(p[1] * q[2], p[2] * q[1])

(***************************************************************************)
(* numpy arrays: a shape and one number per index tuple.                   *)
(***************************************************************************)
RECURSIVE SeqProd(_)
SeqProd(s) ==
    IF s = <<>> THEN 1 ELSE Head(s) * SeqProd(Tail(s))

RECURSIVE SeqMax(_)
SeqMax(s) ==
    IF s = <<>> THEN 1
    ELSE LET m == SeqMax(Tail(s)) IN IF Head(s) > m THEN Head(s) ELSE m

Indices(shape) ==
    {i \in [1..Len(shape) -> 1..SeqMax(shape)] :
        \A k \in 1..Len(shape) : i[k] <= shape[k]}

ndim(arr) == Len(arr.shape)

\* Position of an index tuple in C (row-major) order, from 1.
LinearIndex(idx, shape) ==
    LET RECURSIVE Lin(_)
        Lin(k) == IF k > Len(shape) THEN 0
                  ELSE (idx[k] - 1) * SeqProd(SubSeq(shape, k + 1, Len(shape)))
                       + Lin(k + 1)
    IN 1 + Lin(1)

\* np.array(...) literals: entries are numerators over the denominator den.
np_scalar(q) ==
    [shape |-> <<>>, vals |-> (<<>> :> q)]

np_array1(xs, den) ==
    [shape |-> <<Len(xs)>>,
     vals  |-> [i \in Indices(<<Len(xs)>>) |-> Rat(xs[i[1]], den)]]

np_array2(rows, den) ==
    LET sh == <<Len(rows), Len(rows[1])>>
    IN [shape |-> sh,
        vals  |-> [i \in Indices(sh) |-> Rat(rows[i[1]][i[2]], den)]]

np_array3(blocks, den) ==
    LET sh == <<Len(blocks), Len(blocks[1]), Len(blocks[1][1])>>
    IN [shape |-> sh,
        vals  |-> [i \in Indices(sh) |-> Rat(blocks[i[1]][i[2]][i[3]], den)]]

RECURSIVE RSumOver(_, _)
RSumOver(f, S) ==
    IF S = {} THEN RZero
    ELSE LET x == CHOOSE y \in S : TRUE
         IN RAdd(f[x], RSumOver(f, S \ {x}))

\* The increasing sequence of the positions 1..n that are in the set P.
RECURSIVE Positions(_, _)
Positions(n, P) ==
    IF n = 0 THEN <<>>
    ELSE IF n \in P THEN Append(Positions(n - 1, P), n)
         ELSE Positions(n - 1, P)

\* np.sum(arr, axis=axes): the axes in the tuple are summed away; an empty
\* tuple sums nothing.
np_sum_axes(arr, axes) ==
    LET keep == Positions(ndim(arr), (1..ndim(arr)) \ axes)
        sh   == [k \in 1..Len(keep) |-> arr.shape[keep[k]]]
    IN IF \E a \in axes : a > ndim(arr)
       THEN [error |-> "AxisError", what |-> "axis is out of bounds"]
       ELSE
       [shape |-> sh,
        vals  |-> [i \in Indices(sh) |->
                     RSumOver(arr.vals,
                              {j \in Indices(arr.shape) :
                                  \A k \in 1..Len(keep) : j[keep[k]] = i[k]})]]

\* np.sum(arr): the grand total, a number.
np_sum(arr) ==
    RSumOver(arr.vals, Indices(arr.shape))

\* np.squeeze(arr): the axes of length 1 are dropped.
np_squeeze(arr) ==
    LET keep == Positions(ndim(arr), {k \in 1..ndim(arr) : arr.shape[k] # 1})
        sh   == [k \in 1..Len(keep) |-> arr.shape[keep[k]]]
    IN [shape |-> sh,
        vals  |-> [i \in Indices(sh) |->
                     arr.vals[[k \in 1..ndim(arr) |->
                                 IF arr.shape[k] = 1 THEN 1
                                 ELSE i[CHOOSE m \in 1..Len(keep) : keep[m] = k]]]]]

IsError(x) == "error" \in DOMAIN x

\* A Python call evaluates its arguments once and passes the values.
ByValue1(F(_), a) == CHOOSE r \in {F(x) : x \in {a}} : TRUE

ByValue2(F(_, _), a, b) == CHOOSE r \in {F(x, y) : x \in {a}, y \in {b}} : TRUE

Raise(kind, what) == [error |-> kind, what |-> what]

\* arr.reshape(target): target holds lengths and at most one -1, whose length
\* is inferred; the entries keep their C order.  ValueError when the sizes
\* do not agree.
np_reshape(arr, target) ==
    LET n     == SeqProd(arr.shape)
        known == SeqProd([k \in 1..Len(target) |->
                            IF target[k] = -1 THEN 1 ELSE target[k]])
        sh    == [k \in 1..Len(target) |->
                    IF target[k] = -1 THEN n \div known ELSE target[k]]
    IN IF SeqProd(sh) # n
       THEN Raise("ValueError", "cannot reshape")
       ELSE [shape |-> sh,
             vals  |-> [i \in Indices(sh) |->
                          arr.vals[CHOOSE j \in Indices(arr.shape) :
                                      LinearIndex(j, arr.shape) = LinearIndex(i, sh)]]]

\* a * b with numpy broadcasting: the shapes are aligned at their last axes;
\* two lengths are compatible when equal or when one of them is 1.
np_multiply(a, b) ==
    LET r   == IF ndim(a) > ndim(b) THEN ndim(a) ELSE ndim(b)
        pa  == r - ndim(a)
        pb  == r - ndim(b)
        la(k) == IF k <= pa THEN 1 ELSE a.shape[k - pa]
        lb(k) == IF k <= pb THEN 1 ELSE b.shape[k - pb]
        sh  == [k \in 1..r |-> IF la(k) = 1 THEN lb(k) ELSE la(k)]
        ia(i) == [k \in 1..ndim(a) |-> IF a.shape[k] = 1 THEN 1 ELSE i[k + pa]]
        ib(i) == [k \in 1..ndim(b) |-> IF b.shape[k] = 1 THEN 1 ELSE i[k + pb]]
    IN IF \E k \in 1..r : la(k) # lb(k) /\ la(k) # 1 /\ lb(k) # 1
       THEN Raise("ValueError", "operands could not be broadcast together")
       ELSE [shape |-> sh,
             vals  |-> [i \in Indices(sh) |-> RMul(a.vals[ia(i)], b.vals[ib(i)])]]

(***************************************************************************)
(* class Distribution: a labelled array.  The constructor stores what it   *)
(* is given and checks nothing.                                            *)
(***************************************************************************)
Distribution(probs, axes_labels) ==
    [probs |-> probs, axes_labels |-> axes_labels]

\* {name: axis for axis, name in enumerate(axes_labels)}: a repeated name
\* keeps its last position.
get_axes(dist) ==
    [name \in {dist.axes_labels[k] : k \in 1..Len(dist.axes_labels)} |->
        CHOOSE k \in 1..Len(dist.axes_labels) :
            /\ dist.axes_labels[k] = name
            /\ \A m \in 1..Len(dist.axes_labels) :
                  dist.axes_labels[m] = name => m <= k]

\* A comparison turned round: the axis of the label itself.
get_axis_of(dist, axis_label) ==
    {k \in 1..Len(dist.axes_labels) : dist.axes_labels[k] = axis_label}

\* No axis at all.
get_no_axes(dist, axis_label) == {}

\* Every axis but the first, whatever its name.
get_axes_after_first(dist, axis_label) ==
    {k \in 1..Len(dist.axes_labels) : k # 1}

get_other_axes_from(dist, axis_label) ==
    {k \in 1..Len(dist.axes_labels) : dist.axes_labels[k] # axis_label}

AllOne(arr) ==
    \A i \in Indices(arr.shape) : arr.vals[i] = ROne

is_valid_conditional(dist, variable_name) ==
    IF variable_name \notin DOMAIN get_axes(dist)
    THEN Raise("KeyError", variable_name)
    ELSE LET s == np_sum_axes(dist.probs, {get_axes(dist)[variable_name]})
         IN IF IsError(s) THEN s ELSE [value |-> AllOne(s)]

is_valid_joint(dist) ==
    np_sum(dist.probs) = ROne

(***************************************************************************)
(* multiply(p_v_given_h, p_hi): the product p(v|h1..hn) p(hi).             *)
(***************************************************************************)
\* The -1 put at the first axis whatever axis p_hi's variable has.
multiply_reshape_first_axis(p_v_given_h, p_hi, axis) ==
    IF p_hi.probs.shape # <<>>
    THEN ByValue2(np_reshape, p_hi.probs,
                  [i \in 1..ndim(p_v_given_h.probs) |-> IF i = 1 THEN -1 ELSE 1])
    ELSE p_hi.probs

\* The -1 put at the last axis: p_hi left to plain broadcasting.
multiply_reshape_last_axis(p_v_given_h, p_hi, axis) ==
    IF p_hi.probs.shape # <<>>
    THEN ByValue2(np_reshape, p_hi.probs,
                  [i \in 1..ndim(p_v_given_h.probs) |->
                      IF i = ndim(p_v_given_h.probs) THEN -1 ELSE 1])
    ELSE p_hi.probs

\* No reshape at all: p_hi's array as it is.
multiply_reshape_flat(p_v_given_h, p_hi, axis) ==
    p_hi.probs

multiply_reshape(p_v_given_h, p_hi, axis) ==
    IF p_hi.probs.shape # <<>>
    THEN ByValue2(np_reshape, p_hi.probs,
                  [i \in 1..ndim(p_v_given_h.probs) |->
                      IF i = axis THEN -1 ELSE 1])
    ELSE p_hi.probs

\* A name p_v_given_h does not have is passed over: p_v_given_h comes back.
multiply_skip_missing(p_v_given_h, p_hi) ==
    IF p_hi.axes_labels = <<>>
    THEN Raise("StopIteration", "p_hi has no axis")
    ELSE Distribution(p_v_given_h.probs, p_v_given_h.axes_labels)

multiply(p_v_given_h, p_hi) ==
    IF p_hi.axes_labels = <<>>
    THEN Raise("StopIteration", "p_hi has no axis")
    ELSE LET name == p_hi.axes_labels[1]
         IN IF name \notin DOMAIN get_axes(p_v_given_h)
            THEN Raise("KeyError", name)
            ELSE LET axis == get_axes(p_v_given_h)[name]
                     times(reshaped_p_hi) ==
                         IF IsError(reshaped_p_hi) THEN reshaped_p_hi
                         ELSE ByValue2(np_multiply, p_v_given_h.probs, reshaped_p_hi)
                     labelled(product) ==
                         IF IsError(product) THEN product
                         ELSE Distribution(product, p_v_given_h.axes_labels)
                 IN ByValue1(labelled,
                             ByValue1(times, multiply_reshape(p_v_given_h, p_hi, axis)))

\* The product written into the first operand's array (*= for *).
multiply_operands_in_place(p_v_given_h, p_hi) ==
    LET kept(product) == IF IsError(product) THEN <<p_v_given_h, p_hi>>
                         ELSE <<product, p_hi>>
    IN ByValue1(kept, multiply(p_v_given_h, p_hi))

\* The two operands as multiply leaves them: p_v_given_h.probs * reshaped_p_hi
\* is a new array, reshape returns a view, nothing is assigned to.
multiply_operands(p_v_given_h, p_hi) ==
    <<p_v_given_h, p_hi>>

(***************************************************************************)
(* Factor graph nodes: class Node, Variable, Factor.  A Variable's         *)
(* neighbors are positions in the PGM's factor list (the Factor objects),  *)
(* a Factor's neighbors are variable names (the Variable objects, one per  *)
(* name).                                                                  *)
(***************************************************************************)
None == [none |-> TRUE]

IsNone(x) == "none" \in DOMAIN x

Variable(name) ==
    [kind |-> "Variable", name |-> name, neighbors |-> <<>>]

Factor(name) ==
    [kind |-> "Factor", name |-> name, neighbors |-> <<>>, data |-> None]

\* A check that lets every node pass.
is_valid_neighbor_any(node, neighbor) == TRUE

is_valid_neighbor(node, neighbor) ==
    IF node.kind = "Variable" THEN neighbor.kind = "Factor"
    ELSE neighbor.kind = "Variable"

\* ref is what the neighbor list stores for the neighbor object.
add_neighbor(node, neighbor, ref) ==
    IF ~is_valid_neighbor(node, neighbor)
    THEN Raise("AssertionError", node.name)
    ELSE [node EXCEPT !.neighbors = Append(@, ref)]

(***************************************************************************)
(* parse_model_into_variables_and_factors, from the parsed terms on.       *)
(***************************************************************************)
ParsedTerm(term, var_name, given) ==
    [term |-> term, var_name |-> var_name, given |-> given]

SeqToSet(s) == {s[k] : k \in 1..Len(s)}

\* One Variable per name anywhere in some term.
parse_variables_and_given(parsed_terms) ==
    [name \in UNION {SeqToSet(parsed_terms[k].var_name \o parsed_terms[k].given) :
                        k \in 1..Len(parsed_terms)}
        |-> Variable(name)]

\* Step 2: one Variable per name on the left-hand side of some term.
parse_variables(parsed_terms) ==
    [name \in UNION {SeqToSet(parsed_terms[k].var_name) : k \in 1..Len(parsed_terms)}
        |-> Variable(name)]

\* The inner loop with its second add_neighbor call left out: the factor
\* learns of the variable, the variable not of the factor.
RECURSIVE parse_link_one_way(_, _, _, _, _)
parse_link_one_way(new_factor, variables, all_var_names, fid, k) ==
    IF k > Len(all_var_names)
    THEN [factor |-> new_factor, variables |-> variables]
    ELSE LET var_name == all_var_names[k]
         IN IF var_name \notin DOMAIN variables
            THEN Raise("KeyError", var_name)
            ELSE LET f == add_neighbor(new_factor, variables[var_name], var_name)
                 IN IF IsError(f) THEN f
                    ELSE parse_link_one_way(f, variables, all_var_names, fid, k + 1)

\* The inner loop of step 3 from position k of all_var_names; fid is the
\* position the new factor takes in the factor list.
RECURSIVE parse_link(_, _, _, _, _)
parse_link(new_factor, variables, all_var_names, fid, k) ==
    IF k > Len(all_var_names)
    THEN [factor |-> new_factor, variables |-> variables]
    ELSE LET var_name == all_var_names[k]
         IN IF var_name \notin DOMAIN variables
            THEN Raise("KeyError", var_name)
            ELSE LET f == add_neighbor(new_factor, variables[var_name], var_name)
                     v == add_neighbor(variables[var_name], new_factor, fid)
                 IN IF IsError(f) THEN f
                    ELSE IF IsError(v) THEN v
                    ELSE parse_link(f, [variables EXCEPT ![var_name] = v],
                                    all_var_names, fid, k + 1)

\* Step 3 from term k on.
RECURSIVE parse_factors(_, _, _, _)
parse_factors(parsed_terms, factors, variables, k) ==
    IF k > Len(parsed_terms)
    THEN [factors |-> factors, variables |-> variables]
    ELSE LET parsed_term == parsed_terms[k]
             linked == parse_link(Factor(parsed_term.term), variables,
                                  parsed_term.var_name \o parsed_term.given,
                                  Len(factors) + 1, 1)
         IN IF IsError(linked) THEN linked
            ELSE parse_factors(parsed_terms, Append(factors, linked.factor),
                               linked.variables, k + 1)

parse_model_into_variables_and_factors(parsed_terms) ==
    parse_factors(parsed_terms, <<>>, parse_variables(parsed_terms), 1)

(***************************************************************************)
(* PGM.set_distributions(data) as a function of the factor list: the       *)
(* factor list it leaves and what it raised (None when it returned).       *)
(***************************************************************************)
NeighborNames(factor) == SeqToSet(factor.neighbors)

\* var_dims begun anew for every factor.
RECURSIVE set_distributions_dims_per_factor(_, _, _, _)
set_distributions_dims_per_factor(factor, factor_data, var_dims, k) ==
    LET seen == IF k = 1 THEN [x \in {} |-> 0] ELSE var_dims
    IN IF k > Len(factor_data.axes_labels) \/ k > ndim(factor_data.probs)
       THEN [var_dims |-> seen]
       ELSE LET var_name == factor_data.axes_labels[k]
                dim      == factor_data.probs.shape[k]
            IN IF var_name \notin DOMAIN seen
               THEN set_distributions_dims_per_factor(
                        factor, factor_data, (var_name :> dim) @@ seen, k + 1)
               ELSE IF seen[var_name] # dim
               THEN [error |-> "ValueError", what |-> "axes is wrong size",
                     factor |-> factor.name, dim |-> dim,
                     expected |-> seen[var_name]]
               ELSE set_distributions_dims_per_factor(factor, factor_data, seen, k + 1)

\* The zip(axes_labels, probs.shape) loop from position k.
RECURSIVE set_distributions_dims(_, _, _, _)
set_distributions_dims(factor, factor_data, var_dims, k) ==
    IF k > Len(factor_data.axes_labels) \/ k > ndim(factor_data.probs)
    THEN [var_dims |-> var_dims]
    ELSE LET var_name == factor_data.axes_labels[k]
             dim      == factor_data.probs.shape[k]
         IN IF var_name \notin DOMAIN var_dims
            THEN set_distributions_dims(factor, factor_data,
                                        (var_name :> dim) @@ var_dims, k + 1)
            ELSE IF var_dims[var_name] # dim
            THEN [error |-> "ValueError", what |-> "axes is wrong size",
                  factor |-> factor.name, dim |-> dim,
                  expected |-> var_dims[var_name]]
            ELSE set_distributions_dims(factor, factor_data, var_dims, k + 1)

\* Only the names the table lacks are looked for.
set_distributions_axes_subset(factor, factor_data) ==
    NeighborNames(factor) \subseteq SeqToSet(factor_data.axes_labels)

set_distributions_axes_ok(factor, factor_data) ==
    SeqToSet(factor_data.axes_labels) = NeighborNames(factor)

\* The loop over self._factors from position k.
RECURSIVE set_distributions_loop(_, _, _, _)
set_distributions_loop(factors, data, var_dims, k) ==
    IF k > Len(factors)
    THEN [factors |-> factors, raised |-> None]
    ELSE LET factor == factors[k]
         IN IF factor.name \notin DOMAIN data
            THEN [factors |-> factors, raised |-> Raise("KeyError", factor.name)]
            ELSE LET factor_data == data[factor.name]
                 IN IF ~set_distributions_axes_ok(factor, factor_data)
                    THEN [factors |-> factors,
                          raised  |-> [error |-> "ValueError", what |-> "is missing axes",
                                       factor |-> factor.name,
                                       missing_axes |-> NeighborNames(factor)
                                                        \ SeqToSet(factor_data.axes_labels)]]
                    ELSE LET d == set_distributions_dims(factor, factor_data, var_dims, 1)
                         IN IF IsError(d)
                            THEN [factors |-> factors, raised |-> d]
                            ELSE set_distributions_loop(
                                     [factors EXCEPT ![k].data = factor_data],
                                     data, d.var_dims, k + 1)

set_distributions(factors, data) ==
    set_distributions_loop(factors, data, [x \in {} |-> 0], 1)

\* A lookup that makes up a Variable for a name it does not find.
variable_from_name_default(variables, var_name) ==
    IF var_name \in DOMAIN variables THEN variables[var_name]
    ELSE Variable(var_name)

variable_from_name(variables, var_name) ==
    IF var_name \in DOMAIN variables THEN variables[var_name]
    ELSE Raise("KeyError", var_name)

(***************************************************************************)
(* State.  factors, variables: the PGM (PGM._factors, PGM._variables).     *)
(* messages: Messages.messages, a dict in insertion order, as a sequence   *)
(* of [key, value] entries with distinct keys.  stack: the frames of the   *)
(* running marginal call, outermost first; a frame is                      *)
(*   [fn, variable, factor, i, acc]                                        *)
(* with fn "marginal", "v2f" (_variable_to_factor_messages) or "f2v"       *)
(* (_factor_to_variable_messages), i the position reached in the neighbor  *)
(* loop and acc the incoming messages gathered (marginal, v2f) or          *)
(* factor_dist (f2v).                                                      *)
(* Observations kept for the properties: log (one entry per marginal       *)
(* call), last_set (the last set_distributions call: its argument, what it *)
(* raised), nsets (calls of set_distributions so far), entered (the keys   *)
(* whose computation the running call has entered), stored (the keys       *)
(* stored by this engine, in order), tainted (some factor's data changed   *)
(* while this engine held messages), engine (the Messages objects made so  *)
(* far, less one), model (the parsed terms the PGM was built from),        *)
(* build (how PGM.from_string ended and the add_neighbor calls made on the *)
(* built graph since), lookup (the last variable_from_name call that       *)
(* failed), algebra (a Distribution and what sum_out and normalize made of *)
(* it).                                                                    *)
(***************************************************************************)
VARIABLES model, factors, variables, messages, stack, log, last_set, nsets,
          engine, entered, stored, tainted, build, lookup, algebra

vars == <<model, factors, variables, messages, stack, log, last_set, nsets,
          engine, entered, stored, tainted, build, lookup, algebra>>

\* What the inference and assignment operations never touch.
aside == <<build, lookup, algebra>>

\* build after PGM.from_string returned the PGM.
Built == [status |-> "built", raised |-> None, adds |-> 0, last_add |-> None]

(***************************************************************************)
(* The message cache.                                                      *)
(***************************************************************************)
\* The membership test that never finds the key.
NeverCached(msgs, key) == FALSE

HasKey(msgs, key) == \E k \in 1..Len(msgs) : msgs[k].key = key

Lookup(msgs, key) == msgs[CHOOSE k \in 1..Len(msgs) : msgs[k].key = key].value

\* The store left out.
StoreNothing(msgs, key, value) == msgs

\* A new entry put before the others.
StoreMessageFirst(msgs, key, value) ==
    IF HasKey(msgs, key)
    THEN [k \in 1..Len(msgs) |->
            IF msgs[k].key = key THEN [key |-> key, value |-> value] ELSE msgs[k]]
    ELSE <<[key |-> key, value |-> value]>> \o msgs

\* self.messages[message_name] = value
StoreMessage(msgs, key, value) ==
    IF HasKey(msgs, key)
    THEN [k \in 1..Len(msgs) |->
            IF msgs[k].key = key THEN [key |-> key, value |-> value] ELSE msgs[k]]
    ELSE Append(msgs, [key |-> key, value |-> value])

Keys(msgs) == {msgs[k].key : k \in 1..Len(msgs)}

(***************************************************************************)
(* The bodies of Messages._variable_to_factor_messages,                    *)
(* _factor_to_variable_messages and marginal.                              *)
(***************************************************************************)
\* np.prod(incoming, axis=0): the elementwise product of equally shaped
\* arrays; 1.0 for an empty list.
RECURSIVE np_prod(_)
np_prod(incoming) ==
    IF incoming = <<>> THEN np_scalar(ROne)
    ELSE IF Len(incoming) = 1 THEN incoming[1]
    ELSE IF incoming[1].shape # incoming[2].shape
    THEN Raise("ValueError", "inhomogeneous shape")
    ELSE LET times(first, rest) ==
                 IF IsError(rest) THEN rest
                 ELSE [shape |-> first.shape,
                       vals  |-> [i \in Indices(first.shape) |->
                                    RMul(first.vals[i], rest.vals[i])]]
         IN ByValue2(times, incoming[1], np_prod(Tail(incoming)))

\* The message a variable sends: the product of the messages it received.
variable_message_value(incoming) ==
    np_prod(incoming)

\* The incoming message of neighbor_variable multiplied into factor_dist.
factor_multiply_in(factor_dist, incoming_message, neighbor_name) ==
    ByValue2(multiply, factor_dist,
             Distribution(incoming_message, <<neighbor_name>>))

\* The message a factor sends: factor_dist summed over every axis that is not
\* the variable's.
factor_message_value(factor_dist, variable_name) ==
    LET squeezed(summed) == IF IsError(summed) THEN summed ELSE np_squeeze(summed)
    IN ByValue1(squeezed,
                ByValue2(np_sum_axes, factor_dist.probs,
                         get_other_axes_from(factor_dist, variable_name)))

normalize(unnorm_p) ==
    LET total == np_sum(unnorm_p)
    IN [shape |-> unnorm_p.shape,
        vals  |-> [i \in Indices(unnorm_p.shape) |-> RDiv(unnorm_p.vals[i], total)]]

marginal_value(incoming) ==
    LET normalized(unnorm_p) ==
            IF IsError(unnorm_p) THEN unnorm_p ELSE normalize(unnorm_p)
    IN ByValue1(normalized, np_prod(incoming))

\* None read as the table 1.
factor_dist_or_one(factor) ==
    IF IsNone(factor.data) THEN Distribution(np_scalar(ROne), <<>>)
    ELSE Distribution(factor.data.probs, factor.data.axes_labels)

\* factor_dist = Distribution(factor.data.probs, factor.data.axes_labels):
\* None has no attribute probs.
factor_dist_copy(factor) ==
    IF IsNone(factor.data) THEN Raise("AttributeError", factor.name)
    ELSE Distribution(factor.data.probs, factor.data.axes_labels)

(***************************************************************************)
(* The running call.                                                       *)
(***************************************************************************)
Top == stack[Len(stack)]

Popped == SubSeq(stack, 1, Len(stack) - 1)

Frame(fn, variable, factor, acc) ==
    [fn |-> fn, variable |-> variable, factor |-> factor, i |-> 1, acc |-> acc]

FrameNeighbors(frame) ==
    IF frame.fn = "f2v" THEN factors[frame.factor].neighbors
    ELSE variables[frame.variable].neighbors

InLoop(frame) == frame.i <= Len(FrameNeighbors(frame))

Neighbor(frame) == FrameNeighbors(frame)[frame.i]

\* The target variable not passed over.
skip_no_variable(neighbor_variable, variable) == FALSE

\* Every variable passed over.
skip_any_variable(neighbor_variable, variable) == TRUE

\* _factor_to_variable_messages passes over the target variable:
\* if neighbor_variable.name == variable.name: continue
skip_target_variable(neighbor_variable, variable) ==
    neighbor_variable = variable

\* _variable_to_factor_messages passes over the factor the message goes to.
skip_target_factor(neighbor_factor, factor) ==
    neighbor_factor.name = factor.name

Skipped(frame) ==
    CASE frame.fn = "v2f" -> skip_target_factor(factors[Neighbor(frame)],
                                                factors[frame.factor])
      [] frame.fn = "f2v" -> skip_target_variable(Neighbor(frame), frame.variable)
      [] OTHER            -> FALSE

\* A key of the sender alone.
message_name_of_sender(sender, receiver) == <<sender, sender>>

\* The two names in the other order.
message_name_reversed(sender, receiver) == <<receiver, sender>>

\* message_name = (variable.name, factor.name), or (factor.name, variable.name)
message_name(sender, receiver) == <<sender, receiver>>

\* message_name of the message the frame asks for next.
WantedKey(frame) ==
    IF frame.fn = "f2v" THEN message_name(Neighbor(frame), factors[frame.factor].name)
    ELSE message_name(factors[Neighbor(frame)].name, frame.variable)

\* message_name of the message the frame computes.
FrameKey(frame) ==
    IF frame.fn = "f2v" THEN message_name(factors[frame.factor].name, frame.variable)
    ELSE message_name(frame.variable, factors[frame.factor].name)

Advance(frame, acc) == [frame EXCEPT !.i = @ + 1, !.acc = acc]

\* What the frame holds after it received the message it asked for.
Received(frame, message) ==
    IF frame.fn = "f2v"
    THEN factor_multiply_in(frame.acc, message, Neighbor(frame))
    ELSE Append(frame.acc, message)

\* The operands of the multiplication in Received, after it.
MultipliedOperands(frame, message) ==
    multiply_operands(frame.acc, Distribution(message, <<Neighbor(frame)>>))

\* factor_dist still has the array and the label list of factor.data:
\* Distribution(factor.data.probs, factor.data.axes_labels) copies neither,
\* and no product has taken factor_dist's place yet.
Aliased(frame) ==
    \A j \in 1..(frame.i - 1) :
        skip_target_variable(FrameNeighbors(frame)[j], frame.variable)

\* The factor list after the frame received the message.
FactorsAfter(frame, message) ==
    IF frame.fn = "f2v" /\ Aliased(frame)
    THEN [factors EXCEPT ![frame.factor].data = MultipliedOperands(frame, message)[1]]
    ELSE factors

\* The cache after the frame received the message stored under key.
MessagesAfter(msgs, frame, key, message) ==
    IF frame.fn = "f2v"
    THEN StoreMessage(msgs, key, MultipliedOperands(frame, message)[2].probs)
    ELSE msgs

Running == stack # <<>>

LastLog == log[Len(log)]

\* The call ends with an exception: every frame is left.
Unwind(err, cache) ==
    /\ stack' = <<>>
    /\ log' = [log EXCEPT ![Len(log)] =
                 [@ EXCEPT !.status = "raised", !.value = err,
                           !.cache_after = Len(cache)]]

\* The frame below the top receives `message` from the returning call.
ReturnTo(below, message, cache) ==
    \E got \in {Received(below[Len(below)], message)} :
        IF below[Len(below)].fn = "f2v" /\ IsError(got)
        THEN Unwind(got, cache)
        ELSE /\ stack' = [below EXCEPT ![Len(below)] = Advance(@, got)]
             /\ UNCHANGED log

(***************************************************************************)
(* Operations.                                                             *)
(***************************************************************************)
\* m.marginal(pgm.variable_from_name(v)): the call begins.
marginal(v) ==
    /\ ~Running
    /\ Len(log) < MaxRequests
    /\ v \in DOMAIN variables
    /\ stack' = <<Frame("marginal", v, 0, <<>>)>>
    /\ log' = Append(log, [variable |-> v, status |-> "running", value |-> None,
                           cache_before |-> Len(messages),
                           cache_after |-> Len(messages),
                           engine |-> engine, nsets |-> nsets,
                           tainted |-> tainted])
    /\ entered' = <<>>
    /\ UNCHANGED <<aside, model, factors, variables, messages, last_set, nsets, engine,
                   stored, tainted>>

\* The neighbor loop passes over the excluded neighbor.
loop_skip ==
    /\ Running /\ InLoop(Top) /\ Skipped(Top)
    /\ stack' = [stack EXCEPT ![Len(stack)] = Advance(@, @.acc)]
    /\ UNCHANGED <<aside, model, factors, variables, messages, log, last_set, nsets,
                   engine, entered, stored, tainted>>

\* A new frame is entered, or the recursion limit is hit.
Enter(frame) ==
    IF Len(stack) >= MaxDepth
    THEN Unwind(Raise("RecursionError", "maximum recursion depth exceeded"), messages)
    ELSE stack' = Append(stack, frame) /\ UNCHANGED log

\* Messages.factor_to_variable_message(factor, variable), called by marginal
\* or by _variable_to_factor_messages: the cached message, or the call of
\* _factor_to_variable_messages, whose first statement reads factor.data.
factor_to_variable_message ==
    /\ Running /\ Top.fn # "f2v" /\ InLoop(Top) /\ ~Skipped(Top)
    /\ LET wanted == WantedKey(Top)
           factor       == factors[Neighbor(Top)]
       IN \/ /\ HasKey(messages, wanted)
             /\ stack' = [stack EXCEPT ![Len(stack)] =
                            Advance(@, Received(@, Lookup(messages, wanted)))]
             /\ UNCHANGED <<log, entered>>
          \/ /\ ~HasKey(messages, wanted)
             /\ entered' = Append(entered, wanted)
             /\ \E factor_dist \in {factor_dist_copy(factor)} :
                   IF IsError(factor_dist)
                   THEN Unwind(factor_dist, messages)
                   ELSE Enter(Frame("f2v", Top.variable, Neighbor(Top), factor_dist))
    /\ UNCHANGED <<aside, model, factors, variables, messages, last_set, nsets, engine,
                   stored, tainted>>

\* Messages.variable_to_factor_messages(variable, factor), called by
\* _factor_to_variable_messages, which multiplies the message into factor_dist.
variable_to_factor_messages ==
    /\ Running /\ Top.fn = "f2v" /\ InLoop(Top) /\ ~Skipped(Top)
    /\ LET wanted == WantedKey(Top)
       IN \/ /\ HasKey(messages, wanted)
             /\ \E got \in {Received(Top, Lookup(messages, wanted))} :
                   IF IsError(got) THEN Unwind(got, messages)
                   ELSE /\ stack' = [stack EXCEPT ![Len(stack)] = Advance(@, got)]
                        /\ UNCHANGED log
             /\ factors' = FactorsAfter(Top, Lookup(messages, wanted))
             /\ messages' = MessagesAfter(messages, Top, wanted,
                                          Lookup(messages, wanted))
             /\ UNCHANGED entered
          \/ /\ ~HasKey(messages, wanted)
             /\ entered' = Append(entered, wanted)
             /\ Enter(Frame("v2f", Neighbor(Top), Top.factor, <<>>))
             /\ UNCHANGED <<factors, messages>>
    /\ UNCHANGED <<aside, model, variables, last_set, nsets, engine, stored, tainted>>

\* A message computation returns: the wrapper stores the value under its
\* message_name and hands it to the caller.
MessageReturn(value) ==
    IF IsError(value)
    THEN Unwind(value, messages) /\ UNCHANGED <<messages, stored, factors>>
    ELSE /\ messages' = MessagesAfter(StoreMessage(messages, FrameKey(Top), value),
                                      Popped[Len(Popped)], FrameKey(Top), value)
         /\ factors' = FactorsAfter(Popped[Len(Popped)], value)
         /\ stored' = Append(stored, FrameKey(Top))
         /\ ReturnTo(Popped, value, StoreMessage(messages, FrameKey(Top), value))

_variable_to_factor_messages ==
    /\ Running /\ Top.fn = "v2f" /\ ~InLoop(Top)
    /\ \E value \in {variable_message_value(Top.acc)} : MessageReturn(value)
    /\ UNCHANGED <<aside, model, variables, last_set, nsets, engine, entered, tainted>>

_factor_to_variable_messages ==
    /\ Running /\ Top.fn = "f2v" /\ ~InLoop(Top)
    /\ \E value \in {factor_message_value(Top.acc, Top.variable)} :
          MessageReturn(value)
    /\ UNCHANGED <<aside, model, variables, last_set, nsets, engine, entered, tainted>>

\* marginal returns the normalised product of the incoming messages.
marginal_return ==
    /\ Running /\ Top.fn = "marginal" /\ ~InLoop(Top)
    /\ \E value \in {marginal_value(Top.acc)} :
          IF IsError(value) THEN Unwind(value, messages)
          ELSE /\ stack' = <<>>
               /\ log' = [log EXCEPT ![Len(log)] =
                            [@ EXCEPT !.status = "returned", !.value = value,
                                      !.cache_after = Len(messages)]]
    /\ UNCHANGED <<aside, model, factors, variables, messages, last_set, nsets, engine,
                   entered, stored, tainted>>

\* What a call of pgm.set_distributions(data) does.
Assigned(data) ==
    /\ LET r == set_distributions(factors, data)
       IN /\ factors' = r.factors
          /\ last_set' = [data |-> data, raised |-> r.raised, before |-> factors]
          /\ tainted' = (tainted \/ (messages # <<>> /\ r.factors # factors))
    /\ nsets' = nsets + 1
    /\ UNCHANGED <<aside, model, variables, messages, stack, log, engine, entered, stored>>

\* pgm.set_distributions(data)
PGM_set_distributions(data) ==
    /\ ~Running
    /\ nsets < MaxSets
    /\ Assigned(data)

\* m = Messages(): a new engine with an empty cache.
Messages_init ==
    /\ ~Running
    /\ messages # <<>>
    /\ messages' = <<>>
    /\ stored' = <<>>
    /\ tainted' = FALSE
    /\ engine' = engine + 1
    /\ UNCHANGED <<aside, model, factors, variables, stack, log, last_set, nsets, entered>>

Step ==
    \/ loop_skip
    \/ factor_to_variable_message
    \/ variable_to_factor_messages
    \/ _variable_to_factor_messages
    \/ _factor_to_variable_messages
    \/ marginal_return

(***************************************************************************)
(* The models (parsed terms of a model string) and the distributions the   *)
(* graphs are populated with.                                              *)
(***************************************************************************)
\* "p(h1)p(h2|h1)p(v1|h1)p(v2|h2)"
ChainModel ==
    <<ParsedTerm("p(h1)", <<"h1">>, <<>>),
      ParsedTerm("p(h2|h1)", <<"h2">>, <<"h1">>),
      ParsedTerm("p(v1|h1)", <<"v1">>, <<"h1">>),
      ParsedTerm("p(v2|h2)", <<"v2">>, <<"h2">>)>>

\* "p(h0)p(h1)p(v1|h0,h1)"
CommonEffectModel ==
    <<ParsedTerm("p(h0)", <<"h0">>, <<>>),
      ParsedTerm("p(h1)", <<"h1">>, <<>>),
      ParsedTerm("p(v1|h0,h1)", <<"v1">>, <<"h0", "h1">>)>>

\* "p(h1)p(v1|h1)"
PairModel ==
    <<ParsedTerm("p(h1)", <<"h1">>, <<>>),
      ParsedTerm("p(v1|h1)", <<"v1">>, <<"h1">>)>>

\* "p(a)p(b)": two components, a forest that is no tree.
ForestModel ==
    <<ParsedTerm("p(a)", <<"a">>, <<>>),
      ParsedTerm("p(b)", <<"b">>, <<>>)>>

Models == {ChainModel, CommonEffectModel, PairModel, ForestModel}

\* The distributions of the notebook's chain.
p_h1 == Distribution(np_array2(<<<<2>>, <<8>>>>, 10), <<"h1">>)

p_h2_given_h1 == Distribution(np_array2(<<<<5, 2>>, <<5, 8>>>>, 10), <<"h2", "h1">>)

p_v1_given_h1 == Distribution(np_array2(<<<<6, 1>>, <<4, 9>>>>, 10), <<"v1", "h1">>)

p_v2_given_h2 == Distribution(p_v1_given_h1.probs, <<"v2", "h2">>)

ChainData ==
    [f \in {"p(h1)", "p(h2|h1)", "p(v1|h1)", "p(v2|h2)"} |->
        CASE f = "p(h1)"    -> p_h1
          [] f = "p(h2|h1)" -> p_h2_given_h1
          [] f = "p(v1|h1)" -> p_v1_given_h1
          [] OTHER          -> p_v2_given_h2]

\* The distributions of the notebook's first cells: h1 has three values.
p3_h1 == Distribution(np_array1(<<6, 3, 1>>, 10), <<"h1">>)

p3_v1_given_h1 ==
    Distribution(np_array2(<<<<4, 8, 9>>, <<6, 2, 1>>>>, 10), <<"v1", "h1">>)

p3_v1_given_h0_h1 ==
    Distribution(np_array3(<<<<<<9, 2, 7>>, <<3, 2, 5>>>>,
                             <<<<1, 8, 3>>, <<7, 8, 5>>>>>>, 10),
                 <<"v1", "h0", "h1">>)

\* A chain whose h1 has three values; p(v1|h1) is stored with h1 first.
ChainData3 ==
    [f \in {"p(h1)", "p(h2|h1)", "p(v1|h1)", "p(v2|h2)"} |->
        CASE f = "p(h1)"    -> p3_h1
          [] f = "p(h2|h1)" -> Distribution(p3_v1_given_h1.probs, <<"h2", "h1">>)
          [] f = "p(v1|h1)" -> Distribution(np_array2(<<<<4, 6>>, <<8, 2>>, <<9, 1>>>>, 10),
                                            <<"h1", "v1">>)
          [] OTHER          -> p_v2_given_h2]

\* The chain's data with a p(v1|h1) that gives h1 three values.
ChainDataWrongSize ==
    [ChainData EXCEPT !["p(v1|h1)"] = p3_v1_given_h1]

\* Factors that are no probability tables: any non-negative weights.
ChainWeights ==
    [f \in {"p(h1)", "p(h2|h1)", "p(v1|h1)", "p(v2|h2)"} |->
        CASE f = "p(h1)"    -> Distribution(np_array1(<<1, 3>>, 1), <<"h1">>)
          [] f = "p(h2|h1)" -> Distribution(np_array2(<<<<2, 0>>, <<1, 5>>>>, 1),
                                            <<"h1", "h2">>)
          [] f = "p(v1|h1)" -> Distribution(np_array2(<<<<1, 2>>, <<0, 4>>, <<3, 1>>>>, 1),
                                            <<"v1", "h1">>)
          [] OTHER          -> Distribution(np_array2(<<<<7, 1, 2>>, <<0, 3, 1>>>>, 1),
                                            <<"h2", "v2">>)]

CommonEffectData ==
    [f \in {"p(h0)", "p(h1)", "p(v1|h0,h1)"} |->
        CASE f = "p(h0)" -> Distribution(np_array1(<<3, 7>>, 10), <<"h0">>)
          [] f = "p(h1)" -> p3_h1
          [] OTHER       -> p3_v1_given_h0_h1]

\* The same table with its axes in another order: (h1, v1, h0).
CommonEffectDataPermuted ==
    [CommonEffectData EXCEPT !["p(v1|h0,h1)"] =
        Distribution(np_array3(<<<<<<9, 3>>, <<1, 7>>>>,
                                 <<<<2, 2>>, <<8, 8>>>>,
                                 <<<<7, 5>>, <<3, 5>>>>>>, 10),
                     <<"h1", "v1", "h0">>)]

PairData ==
    [f \in {"p(h1)", "p(v1|h1)"} |->
        IF f = "p(h1)" THEN p3_h1 ELSE p3_v1_given_h1]

\* Weights whose product is zero everywhere.
PairZero ==
    [f \in {"p(h1)", "p(v1|h1)"} |->
        IF f = "p(h1)" THEN Distribution(np_array1(<<0, 1>>, 1), <<"h1">>)
        ELSE Distribution(np_array2(<<<<1, 0>>, <<2, 0>>>>, 1), <<"v1", "h1">>)]

PairWeights ==
    [f \in {"p(h1)", "p(v1|h1)"} |->
        IF f = "p(h1)" THEN Distribution(np_array1(<<2, 1>>, 1), <<"h1">>)
        ELSE Distribution(np_array2(<<<<1, 0>>, <<2, 3>>>>, 1), <<"h1", "v1">>)]

ForestData ==
    [f \in {"p(a)", "p(b)"} |->
        IF f = "p(a)" THEN Distribution(np_array1(<<1, 3>>, 4), <<"a">>)
        ELSE Distribution(np_array1(<<1, 1, 2>>, 4), <<"b">>)]

\* The data handed to set_distributions while inference is exercised.
DataPool(m) ==
    CASE m = ChainModel        -> {ChainData, ChainData3, ChainDataWrongSize, ChainWeights}
      [] m = CommonEffectModel -> {CommonEffectData, CommonEffectDataPermuted}
      [] m = PairModel         -> {PairData, PairZero, PairWeights}
      [] OTHER                 -> {ForestData}

(***************************************************************************)
(* The specification.                                                      *)
(***************************************************************************)
Init ==
    /\ model \in Models
    /\ LET g == parse_model_into_variables_and_factors(model)
       IN factors = g.factors /\ variables = g.variables
    /\ messages = <<>>
    /\ stack = <<>>
    /\ log = <<>>
    /\ last_set = None
    /\ nsets = 0
    /\ engine = 0
    /\ entered = <<>>
    /\ stored = <<>>
    /\ tainted = FALSE
    /\ build = Built
    /\ lookup = None
    /\ algebra = None

Next ==
    \/ \E v \in DOMAIN variables : marginal(v)
    \/ loop_skip
    \/ factor_to_variable_message
    \/ variable_to_factor_messages
    \/ _variable_to_factor_messages
    \/ _factor_to_variable_messages
    \/ marginal_return
    \/ \E data \in DataPool(model) : PGM_set_distributions(data)
    \/ Messages_init

Spec == Init /\ [][Next]_vars

(***************************************************************************)
(* Definitions the properties are stated with.                             *)
(***************************************************************************)
VarNames == DOMAIN variables

FactorIds == 1..Len(factors)

\* The undirected edges: factor k's j-th neighbor.
Edges == UNION {{<<k, j>> : j \in 1..Len(factors[k].neighbors)} : k \in FactorIds}

EdgeVar(e) == factors[e[1]].neighbors[e[2]]

\* Edges left after leaves (nodes with one edge) are stripped again and again:
\* none in a graph without a cycle.
RECURSIVE Stripped(_)
Stripped(E) ==
    LET leafVar(u)    == Cardinality({e \in E : EdgeVar(e) = u}) = 1
        leafFactor(k) == Cardinality({e \in E : e[1] = k}) = 1
        rest == {e \in E : ~leafVar(EdgeVar(e)) /\ ~leafFactor(e[1])}
    IN IF rest = E THEN E ELSE Stripped(rest)

Acyclic == Stripped(Edges) = {}

\* The variables reachable from the set S.
RECURSIVE ReachVars(_)
ReachVars(S) ==
    LET more == S \cup {u \in VarNames :
                          \E k \in FactorIds :
                              /\ u \in SeqToSet(factors[k].neighbors)
                              /\ SeqToSet(factors[k].neighbors) \cap S # {}}
    IN IF more = S THEN S ELSE ReachVars(more)

Connected ==
    /\ \A u \in VarNames : ReachVars({u}) = VarNames
    /\ \A k \in FactorIds : factors[k].neighbors # <<>>

IsTree == Acyclic /\ Connected

\* Distance, in variables, from v to every variable reachable from it.
RECURSIVE VarDistFrom(_, _, _)
VarDistFrom(seen, frontier, d) ==
    IF frontier = {} THEN [u \in {} |-> 0]
    ELSE LET next == {u \in VarNames \ (seen \cup frontier) :
                        \E k \in FactorIds :
                            /\ u \in SeqToSet(factors[k].neighbors)
                            /\ SeqToSet(factors[k].neighbors) \cap frontier # {}}
         IN [u \in frontier |-> d] @@ VarDistFrom(seen \cup frontier, next, d + 1)

\* The message names of the directed edges that point toward v in a tree:
\* of each factor's edges, the one to its neighbor nearest v carries
\* factor -> variable, every other one variable -> factor.
TowardKeys(v) ==
    LET dist == VarDistFrom({}, {v}, 0)
        nearest(k) == CHOOSE u \in SeqToSet(factors[k].neighbors) :
                         \A w \in SeqToSet(factors[k].neighbors) : dist[u] <= dist[w]
    IN {IF EdgeVar(e) = nearest(e[1])
        THEN <<factors[e[1]].name, EdgeVar(e)>>
        ELSE <<EdgeVar(e), factors[e[1]].name>> : e \in Edges}

AllAssigned == \A k \in FactorIds : ~IsNone(factors[k].data)

\* The data the factors hold, as a dict by factor name.
CurrentData ==
    [n \in {factors[k].name : k \in FactorIds} |->
        factors[CHOOSE k \in FactorIds : factors[k].name = n].data]

\* The factors hold data that set_distributions accepts as a whole.
Validated ==
    /\ AllAssigned
    /\ IsNone(set_distributions(factors, CurrentData).raised)

\* The length the factors' data give the axis of variable u.
VarDim(u) ==
    LET k == CHOOSE k \in FactorIds : u \in SeqToSet(factors[k].data.axes_labels)
    IN factors[k].data.probs.shape[get_axes(factors[k].data)[u]]

\* The entry of a factor's table at the assignment a of values to variables
\* (axes without a label are summed).
TableAt(dist, a) ==
    IF Len(dist.axes_labels) = ndim(dist.probs)
    THEN dist.probs.vals[[k \in 1..ndim(dist.probs) |-> a[dist.axes_labels[k]]]]
    ELSE RSumOver(dist.probs.vals,
                  {i \in Indices(dist.probs.shape) :
                      \A k \in 1..Len(dist.axes_labels) :
                          k <= ndim(dist.probs) => i[k] = a[dist.axes_labels[k]]})

\* The product of all factor tables, from factor k on, at the assignment a.
RECURSIVE JointFrom(_, _)
JointFrom(k, a) ==
    IF k > Len(factors) THEN ROne
    ELSE RMul(TableAt(factors[k].data, a), JointFrom(k + 1, a))

\* The joint summed over every value of the variables in free, the other
\* variables held at their values in a.
RECURSIVE SumJoint(_, _)
SumJoint(free, a) ==
    IF free = {} THEN JointFrom(1, a)
    ELSE LET u == CHOOSE x \in free : TRUE
             RECURSIVE Over(_)
             Over(d) == IF d = 0 THEN RZero
                        ELSE RAdd(SumJoint(free \ {u}, (u :> d) @@ a), Over(d - 1))
         IN Over(VarDim(u))

GrandTotal == SumJoint(VarNames, [x \in {} |-> 0])

\* The joint summed over every variable but v, divided by the grand total.
ReferenceMarginal(v) ==
    LET total == GrandTotal
    IN [shape |-> <<VarDim(v)>>,
        vals  |-> [i \in Indices(<<VarDim(v)>>) |->
                     RDiv(SumJoint(VarNames \ {v}, (v :> i[1])), total)]]

\* The log entries made under the data the factors hold now.
Current(e) == e.nsets = nsets

Done(e) == e.status # "running"

Returned(e) == e.status = "returned"

LogEntries == {log[k] : k \in 1..Len(log)}

(***************************************************************************)
(* C1.  On a loop-free factor graph whose factors hold data that           *)
(* set_distributions accepts, with a positive grand total, every value     *)
(* marginal(V) returns from an engine whose cache was filled under that    *)
(* data equals the reference marginal: the product of all factor tables    *)
(* summed over every variable but V and divided by the grand total.        *)
(***************************************************************************)
C1_Precondition(e) ==
    /\ ~Running /\ Done(e) /\ Current(e) /\ ~e.tainted
    /\ Acyclic /\ Validated
    /\ GrandTotal # RZero

C1_MarginalIsExact ==
    (log # <<>> /\ C1_Precondition(LastLog)) =>
        /\ Returned(LastLog)
        /\ LastLog.value = ReferenceMarginal(LastLog.variable)

\* marginal has returned on the chain for a variable two factors away from
\* the prior, and on the three-variable factor, from a warm cache too.
C1_Witness ==
    /\ \E e \in LogEntries :
          /\ C1_Precondition(e) /\ Returned(e) /\ e.cache_before > 0
          /\ e.variable = "v2" /\ model = ChainModel
          /\ CurrentData = ChainWeights

(***************************************************************************)
(* C2.  On the notebook's chain p(h1)p(h2|h1)p(v1|h1)p(v2|h2) with the     *)
(* notebook's tables, marginal(h1) returns [0.2, 0.8], marginal(v2)        *)
(* returns [0.23, 0.77] and marginal(v1) returns [0.2, 0.8].               *)
(***************************************************************************)
C2_Expected(v) ==
    CASE v = "h1" -> np_array1(<<20, 80>>, 100)
      [] v = "v2" -> np_array1(<<23, 77>>, 100)
      [] v = "v1" -> np_array1(<<20, 80>>, 100)

C2_OnChain(e) ==
    /\ ~Running /\ Done(e) /\ Current(e) /\ ~e.tainted
    /\ model = ChainModel /\ AllAssigned /\ CurrentData = ChainData
    /\ e.variable \in {"h1", "v2", "v1"}

C2_ChainMarginals ==
    (log # <<>> /\ C2_OnChain(LastLog)) =>
        /\ Returned(LastLog)
        /\ LastLog.value = C2_Expected(LastLog.variable)

C2_Witness ==
    /\ Len(log) = 2
    /\ C2_OnChain(log[1]) /\ log[1].variable = "v2" /\ Returned(log[1])
    /\ C2_OnChain(log[2]) /\ log[2].variable = "v1" /\ Returned(log[2])

(***************************************************************************)
(* C3.  On a loop-free factor graph whose factors hold valid conditional   *)
(* distributions accepted by set_distributions, marginal(V) returns a 1-D  *)
(* array with one entry per value of V whose entries sum to 1.             *)
(***************************************************************************)
\* Factor k's table sums to 1 over the axes of the term's left-hand side,
\* for every value of the conditioned-on variables.
ValidTable(k) ==
    LET dist == factors[k].data
        s == np_sum_axes(dist.probs,
                         {j \in 1..Len(dist.axes_labels) :
                             dist.axes_labels[j] \in SeqToSet(model[k].var_name)})
    IN ~IsError(s) /\ AllOne(s)

ValidDistributions == \A k \in FactorIds : ValidTable(k)

C3_Precondition(e) ==
    /\ ~Running /\ Done(e) /\ Current(e) /\ ~e.tainted
    /\ Acyclic /\ Validated /\ ValidDistributions

C3_MarginalSumsToOne ==
    (log # <<>> /\ C3_Precondition(LastLog)) =>
        /\ Returned(LastLog)
        /\ LastLog.value.shape = <<VarDim(LastLog.variable)>>
        /\ np_sum(LastLog.value) = ROne

C3_Witness ==
    \E e \in LogEntries :
        /\ C3_Precondition(e) /\ Returned(e)
        /\ model = CommonEffectModel /\ e.variable = "h0"
        /\ CurrentData = CommonEffectDataPermuted

(***************************************************************************)
(* C4.  On a tree, when the first marginal(V) of an engine has returned,   *)
(* the cache holds exactly the messages of the directed edges that point   *)
(* toward V, one per undirected edge (7 on the chain after marginal(v2));  *)
(* a marginal(V) that directly follows a returned marginal(V) on the same  *)
(* engine and data returns the same value and adds no cache entry.         *)
(***************************************************************************)
\* The engine's first call has just returned and nothing happened since.
C4_FirstReturned ==
    /\ ~Running /\ log # <<>>
    /\ Returned(LastLog) /\ Current(LastLog)
    /\ LastLog.cache_before = 0 /\ LastLog.engine = engine
    /\ IsTree

C4_Repeated(k) ==
    /\ k + 1 <= Len(log)
    /\ Returned(log[k]) /\ Done(log[k + 1])
    /\ log[k + 1].variable = log[k].variable
    /\ log[k + 1].engine = log[k].engine
    /\ log[k + 1].nsets = log[k].nsets

C4_CacheAfterMarginal ==
    /\ C4_FirstReturned =>
          /\ Keys(messages) = TowardKeys(LastLog.variable)
          /\ Len(messages) = Cardinality(Edges)
          /\ LastLog.cache_after = Len(messages)
          /\ (model = ChainModel /\ LastLog.variable = "v2") => Len(messages) = 7
    /\ \A k \in 1..Len(log) :
          C4_Repeated(k) =>
              /\ log[k + 1].value = log[k].value
              /\ log[k + 1].status = log[k].status
              /\ log[k + 1].cache_after = log[k + 1].cache_before
              /\ log[k + 1].cache_before = log[k].cache_after

C4_Witness ==
    /\ C4_FirstReturned /\ Len(log) = 1
    /\ model = ChainModel /\ LastLog.variable = "v2" /\ Len(messages) = 7

C4_WitnessRepeated ==
    /\ C4_Repeated(1) /\ log[1].cache_before = 0 /\ IsTree
    /\ model = ChainModel /\ log[1].variable = "v2" /\ ~Running

(***************************************************************************)
(* C5.  On a loop-free graph, whatever was requested before on the same    *)
(* engine under the same data, marginal(V) ends as it does on a fresh      *)
(* engine: with the value the message equations give without any cache.    *)
(***************************************************************************)
\* The message equations, evaluated without a cache (they recurse forever
\* on a graph with a cycle).
RECURSIVE FreshV2F(_, _), FreshF2V(_, _), FreshGather(_, _, _),
          FreshMultiplyIn(_, _, _, _)
\* The messages into variable u from its neighbors at positions j.. that
\* are not factor `except` (0: none is excluded), as [list |-> ...].
FreshGather(u, except, j) ==
    LET nb == variables[u].neighbors
    IN IF j > Len(nb) THEN [list |-> <<>>]
       ELSE IF except # 0 /\ skip_target_factor(factors[nb[j]], factors[except])
       THEN FreshGather(u, except, j + 1)
       ELSE LET m    == FreshF2V(nb[j], u)
                rest == FreshGather(u, except, j + 1)
            IN IF IsError(m) THEN m
               ELSE IF IsError(rest) THEN rest
               ELSE [list |-> <<m>> \o rest.list]

FreshV2F(u, k) ==
    LET incoming == FreshGather(u, k, 1)
    IN IF IsError(incoming) THEN incoming
       ELSE variable_message_value(incoming.list)

FreshMultiplyIn(k, v, factor_dist, j) ==
    LET nb == factors[k].neighbors
    IN IF j > Len(nb) THEN factor_dist
       ELSE IF skip_target_variable(nb[j], v)
       THEN FreshMultiplyIn(k, v, factor_dist, j + 1)
       ELSE LET m == FreshV2F(nb[j], k)
            IN IF IsError(m) THEN m
               ELSE LET d == factor_multiply_in(factor_dist, m, nb[j])
                    IN IF IsError(d) THEN d
                       ELSE FreshMultiplyIn(k, v, d, j + 1)

FreshF2V(k, v) ==
    IF IsNone(factors[k].data) THEN Raise("AttributeError", factors[k].name)
    ELSE LET d == FreshMultiplyIn(k, v, Distribution(factors[k].data.probs,
                                                     factors[k].data.axes_labels), 1)
         IN IF IsError(d) THEN d ELSE factor_message_value(d, v)

FreshMarginal(v) ==
    LET incoming == FreshGather(v, 0, 1)
    IN IF IsError(incoming) THEN incoming
       ELSE marginal_value(incoming.list)

C5_Precondition(e) ==
    /\ ~Running /\ Done(e) /\ Current(e) /\ ~e.tainted
    /\ Acyclic

C5_OrderIndependent ==
    (log # <<>> /\ C5_Precondition(LastLog)) =>
        /\ LastLog.value = FreshMarginal(LastLog.variable)
        /\ Returned(LastLog) <=> ~IsError(FreshMarginal(LastLog.variable))

\* marginal(v2) then marginal(v1), and the other way round, on the chain.
C5_Witness ==
    /\ Len(log) = 2 /\ model = ChainModel /\ CurrentData = ChainData3
    /\ C5_Precondition(log[1]) /\ C5_Precondition(log[2])
    /\ Returned(log[1]) /\ Returned(log[2])
    /\ log[1].engine = log[2].engine
    /\ log[1].variable = "v1" /\ log[2].variable = "v2"
    /\ log[2].cache_before > 0 /\ log[2].cache_after > log[2].cache_before

(***************************************************************************)
(* The assignment of distributions on its own: set_distributions is handed *)
(* data whose tables have the right, too few, too many, other or repeated  *)
(* axis names and equal or unequal lengths, in up to two factors at once.  *)
(***************************************************************************)
np_ones(shape) ==
    [shape |-> shape, vals |-> [i \in Indices(shape) |-> ROne]]

\* The names of the term's variables, as the parser links them to its factor.
TermLabels(term) == term.var_name \o term.given

\* A table of the term with every axis of length two.
Plain(term) ==
    Distribution(np_ones([k \in 1..Len(TermLabels(term)) |-> 2]), TermLabels(term))

\* The tables that differ from the plain one.
Variants(term) ==
    LET labels == TermLabels(term)
        n      == Len(labels)
        twos(m) == [k \in 1..m |-> 2]
    IN { Distribution(np_ones([k \in 1..n |-> 3]), labels),
         Distribution(np_ones(twos(n - 1)), Tail(labels)),
         Distribution(np_ones(twos(n + 1)), labels \o <<"zz">>),
         Distribution(np_ones(twos(n)), [labels EXCEPT ![n] = "zz"]),
         Distribution(np_ones([k \in 1..(n + 1) |-> IF k > n THEN 3 ELSE 2]),
                      labels \o <<labels[1]>>),
         Distribution(np_ones(<<3>>), labels) }

TermNames(m) == {m[k].term : k \in 1..Len(m)}

TermOf(m, name) == m[CHOOSE k \in 1..Len(m) : m[k].term = name]

PlainData(m) == [name \in TermNames(m) |-> Plain(TermOf(m, name))]

\* Dicts with a variant table for one or two factors, and a dict without the
\* last factor's entry.
AssignPool(m) ==
    {PlainData(m)}
    \cup UNION {{[PlainData(m) EXCEPT ![a] = x, ![b] = y] :
                    x \in Variants(TermOf(m, a)) \cup {Plain(TermOf(m, a))},
                    y \in Variants(TermOf(m, b))} :
                a \in TermNames(m), b \in TermNames(m)}
    \cup {[name \in TermNames(m) \ {m[Len(m)].term} |-> Plain(TermOf(m, name))]}

ChainAssignPool == AssignPool(ChainModel)

CommonEffectAssignPool == AssignPool(CommonEffectModel)

PairAssignPool == AssignPool(PairModel)

ForestAssignPool == AssignPool(ForestModel)

AssignPoolOf(m) ==
    CASE m = ChainModel        -> ChainAssignPool
      [] m = CommonEffectModel -> CommonEffectAssignPool
      [] m = PairModel         -> PairAssignPool
      [] OTHER                 -> ForestAssignPool

NextAssign == \E data \in AssignPoolOf(model) : PGM_set_distributions(data)

SpecAssign == Init /\ [][NextAssign]_vars

(***************************************************************************)
(* C6.  On a loop-free graph, over the life of one engine and whatever is  *)
(* requested, each directed edge's message is computed to the end and      *)
(* stored at most once: no computation runs for a stored message, a stored *)
(* entry is never overwritten or removed, and the computations never       *)
(* number more than twice the undirected edges.                            *)
(***************************************************************************)
NoRepeat(seq) == \A i, j \in 1..Len(seq) : seq[i] = seq[j] => i = j

C6_State ==
    Acyclic =>
        /\ NoRepeat(stored)
        /\ Len(stored) <= 2 * Cardinality(Edges)
        /\ SeqToSet(stored) = Keys(messages)
        /\ \A d \in 1..Len(stack) :
              stack[d].fn # "marginal" => ~HasKey(messages, FrameKey(stack[d]))

C6_Step ==
    (Acyclic /\ engine' = engine) =>
        /\ Len(messages') >= Len(messages)
        /\ \A k \in 1..Len(messages) : messages'[k] = messages[k]

C6_ComputedAtMostOnce == [](C6_State) /\ [][C6_Step]_vars

\* Two calls on one engine that both stored messages, the second reusing some.
C6_Witness ==
    /\ Len(log) = 2 /\ ~Running /\ Acyclic
    /\ Returned(log[1]) /\ Returned(log[2])
    /\ log[1].engine = log[2].engine /\ log[2].engine = engine
    /\ log[1].cache_after > 0
    /\ log[2].cache_after > log[2].cache_before
    /\ Len(stored) > Cardinality(Edges) /\ model = ChainModel

(***************************************************************************)
(* C7.  On a loop-free graph whose factors hold data that set_distributions*)
(* accepts, every marginal call ends, by a return when the engine's cache  *)
(* was filled under that data, and no call enters the computation of one   *)
(* directed edge's message twice.                                          *)
(***************************************************************************)
C7_NoReentry ==
    Acyclic => NoRepeat(entered) /\ Len(stack) < MaxDepth

C7_ReturnsWhenDone ==
    (~Running /\ log # <<>> /\ Acyclic /\ Validated
        /\ Current(LastLog) /\ ~LastLog.tainted) => Returned(LastLog)

C7_Safety == C7_NoReentry /\ C7_ReturnsWhenDone

C7_Live == (Running /\ Acyclic /\ Validated) ~> ~Running

C7_Terminates == []C7_Safety /\ C7_Live

\* A call that went the whole length of the chain and returned.
C7_Witness ==
    /\ ~Running /\ log # <<>> /\ Acyclic /\ Validated
    /\ Current(LastLog) /\ Returned(LastLog)
    /\ model = ChainModel /\ Len(entered) = 7

\* The calls run to their end: Python executes the call synchronously.
FairSpec == Spec /\ WF_vars(Step)

(***************************************************************************)
(* What the last set_distributions call was handed, read off the data and  *)
(* the graph alone.                                                        *)
(***************************************************************************)
Called == ~IsNone(last_set)

Failed == Called /\ ~IsNone(last_set.raised)

Given(k) == last_set.data[factors[k].name]

HasEntry(k) == factors[k].name \in DOMAIN last_set.data

\* The factor's table does not have exactly its neighbors' names as axes.
AxisMismatch(k) ==
    HasEntry(k) /\ SeqToSet(Given(k).axes_labels) # NeighborNames(factors[k])

\* The axes of the table that carry both a name and a length.
Slots(k) ==
    IF ~HasEntry(k) THEN {}
    ELSE {p \in 1..Len(Given(k).axes_labels) : p <= ndim(Given(k).probs)}

AllSlots == {<<k, p>> \in FactorIds \X (1..4) : p \in Slots(k)}

SlotName(sl) == Given(sl[1]).axes_labels[sl[2]]

SlotLength(sl) == Given(sl[1]).probs.shape[sl[2]]

Earlier(a, b) == a[1] < b[1] \/ (a[1] = b[1] /\ a[2] < b[2])

\* The length the first table, in factor order, gives the slot's variable.
FirstLength(sl) ==
    SlotLength(CHOOSE a \in AllSlots :
                  /\ SlotName(a) = SlotName(sl)
                  /\ \A b \in AllSlots : SlotName(b) = SlotName(sl) => ~Earlier(b, a))

SizeConflictAt(sl) == SlotLength(sl) # FirstLength(sl)

SizeConflict(k) == \E p \in Slots(k) : SizeConflictAt(<<k, p>>)

\* Two different factors give one variable different lengths.
CrossConflict ==
    \E a, b \in AllSlots :
        a[1] # b[1] /\ SlotName(a) = SlotName(b) /\ SlotLength(a) # SlotLength(b)

Fault(k) == ~HasEntry(k) \/ AxisMismatch(k) \/ SizeConflict(k)

FirstFault(k) == Fault(k) /\ \A j \in FactorIds : j < k => ~Fault(j)

MissingAxesError(k) ==
    [error |-> "ValueError", what |-> "is missing axes",
     factor |-> factors[k].name,
     missing_axes |-> NeighborNames(factors[k]) \ SeqToSet(Given(k).axes_labels)]

WrongSizeError(k) ==
    LET p == CHOOSE q \in Slots(k) :
                 /\ SizeConflictAt(<<k, q>>)
                 /\ \A r \in Slots(k) : SizeConflictAt(<<k, r>>) => q <= r
    IN [error |-> "ValueError", what |-> "axes is wrong size",
        factor |-> factors[k].name,
        dim |-> SlotLength(<<k, p>>), expected |-> FirstLength(<<k, p>>)]

(***************************************************************************)
(* C8.  set_distributions fails whenever some factor's table has an axis   *)
(* name set other than the names of the factor's neighbors; when that      *)
(* factor is the first the call finds fault with, the error is the         *)
(* ValueError that names the factor and the neighbor names the table       *)
(* lacks, and no call raises that error otherwise.                         *)
(***************************************************************************)
C8_AxisMismatchFails ==
    Called =>
        /\ (\E k \in FactorIds : AxisMismatch(k)) => Failed
        /\ \A k \in FactorIds :
              (AxisMismatch(k) /\ FirstFault(k)) =>
                  last_set.raised = MissingAxesError(k)
        /\ (Failed /\ last_set.raised.what = "is missing axes") =>
              \E k \in FactorIds :
                  AxisMismatch(k) /\ last_set.raised = MissingAxesError(k)

\* A table with too few axes, one with an axis too many and one with another
\* name have each made the call fail.
C8_WitnessFewer ==
    /\ Failed /\ last_set.raised.what = "is missing axes"
    /\ last_set.raised.missing_axes # {}
    /\ \E k \in FactorIds :
          /\ AxisMismatch(k) /\ last_set.raised.factor = factors[k].name
          /\ Len(Given(k).axes_labels) < Cardinality(NeighborNames(factors[k]))

C8_Witness ==
    /\ Failed /\ last_set.raised.what = "is missing axes"
    /\ last_set.raised.missing_axes = {}
    /\ \E k \in FactorIds :
          /\ k > 1 /\ AxisMismatch(k) /\ last_set.raised.factor = factors[k].name
          /\ "zz" \in SeqToSet(Given(k).axes_labels)

(***************************************************************************)
(* C9.  set_distributions fails whenever two factors' tables give one      *)
(* variable different lengths; when the later of them is the first factor  *)
(* the call finds fault with, the error is the ValueError that names that  *)
(* factor, the length found there and the length first recorded for the    *)
(* variable; the call succeeds only if every variable has one length in    *)
(* all the tables, and it does succeed when no factor is at fault.         *)
(***************************************************************************)
C9_SizeConflictFails ==
    Called =>
        /\ CrossConflict => Failed
        /\ (\E k \in FactorIds : SizeConflict(k)) => Failed
        /\ \A k \in FactorIds :
              (SizeConflict(k) /\ ~AxisMismatch(k) /\ FirstFault(k)) =>
                  last_set.raised = WrongSizeError(k)
        /\ (Failed /\ last_set.raised.what = "axes is wrong size") =>
              \E k \in FactorIds :
                  SizeConflict(k) /\ last_set.raised = WrongSizeError(k)
        /\ (\A k \in FactorIds : ~Fault(k)) =>
              /\ ~Failed
              /\ \A k \in FactorIds : factors[k].data = Given(k)

\* The chain's third factor gives h1 three values where the first gave two.
C9_Witness ==
    /\ Failed /\ last_set.raised.what = "axes is wrong size"
    /\ last_set.raised.dim = 3 /\ last_set.raised.expected = 2
    /\ \E k \in FactorIds :
          /\ k > 2 /\ last_set.raised.factor = factors[k].name
          /\ CrossConflict /\ FirstFault(k)

C9_WitnessSucceeds ==
    /\ Called /\ ~Failed /\ nsets = MaxSets
    /\ \A k \in FactorIds : factors[k].data = Given(k)

(***************************************************************************)
(* C10.  set_distributions is all-or-nothing: when the call fails, every   *)
(* factor holds what it held before the call.                              *)
(***************************************************************************)
C10_AllOrNothing ==
    Failed => factors = last_set.before

(***************************************************************************)
(* The construction of the graph on its own: PGM.from_string builds the    *)
(* graph of a model string, and add_neighbor is then called on any node    *)
(* of the built graph with any node as its argument.                       *)
(***************************************************************************)
\* "p(a|b)": b is on no term's left-hand side, so no Variable is made for it.
UndeclaredModel ==
    <<ParsedTerm("p(a|b)", <<"a">>, <<"b">>)>>

\* "p(a|a)p(b|a)": the first factor is linked to a twice.
RepeatedModel ==
    <<ParsedTerm("p(a|a)", <<"a">>, <<"a">>),
      ParsedTerm("p(b|a)", <<"b">>, <<"a">>)>>

\* "p(a,b)p(c|a,b)": a term with two variables on its left-hand side.
JointModel ==
    <<ParsedTerm("p(a,b)", <<"a", "b">>, <<>>),
      ParsedTerm("p(c|a,b)", <<"c">>, <<"a", "b">>)>>

\* "p(a)p(c|a,b)": b is met in the second term, after a factor was made.
LateUndeclaredModel ==
    <<ParsedTerm("p(a)", <<"a">>, <<>>),
      ParsedTerm("p(c|a,b)", <<"c">>, <<"a", "b">>)>>

BuildModels ==
    {PairModel, CommonEffectModel, UndeclaredModel, RepeatedModel, JointModel,
     LateUndeclaredModel}

\* A node of the graph: <<"Variable", name>> or <<"Factor", position>>.
NodeRefs ==
    {<<"Variable", n>> : n \in DOMAIN variables}
    \cup {<<"Factor", k>> : k \in 1..Len(factors)}

NodeOf(ref) ==
    IF ref[1] = "Variable" THEN variables[ref[2]] ELSE factors[ref[2]]

\* No call is running, no engine has computed anything.
NoSession ==
    /\ messages = <<>>
    /\ stack = <<>>
    /\ log = <<>>
    /\ last_set = None
    /\ nsets = 0
    /\ engine = 0
    /\ entered = <<>>
    /\ stored = <<>>
    /\ tainted = FALSE
    /\ lookup = None
    /\ algebra = None

InitBuild ==
    /\ model \in BuildModels
    /\ factors = <<>>
    /\ variables = <<>>
    /\ build = [status |-> "new", raised |-> None, adds |-> 0, last_add |-> None]
    /\ NoSession

\* pgm = PGM.from_string(model_string)
PGM_from_string ==
    /\ build.status = "new"
    /\ LET g == parse_model_into_variables_and_factors(model)
       IN IF IsError(g)
          THEN /\ build' = [build EXCEPT !.status = "failed", !.raised = g]
               /\ UNCHANGED <<factors, variables>>
          ELSE /\ build' = [build EXCEPT !.status = "built"]
               /\ factors' = g.factors
               /\ variables' = g.variables
    /\ UNCHANGED <<model, messages, stack, log, last_set, nsets, engine, entered,
                   stored, tainted, lookup, algebra>>

\* node.add_neighbor(neighbor) on the built graph.
Node_add_neighbor(node, neighbor) ==
    /\ build.status = "built"
    /\ build.adds < MaxAdds
    /\ LET r == add_neighbor(NodeOf(node), NodeOf(neighbor), neighbor[2])
       IN /\ build' = [build EXCEPT
                         !.adds = @ + 1,
                         !.last_add = [node |-> node, neighbor |-> neighbor,
                                       raised |-> IF IsError(r) THEN r ELSE None,
                                       before |-> NodeOf(node).neighbors]]
          /\ IF IsError(r) THEN UNCHANGED <<factors, variables>>
             ELSE IF node[1] = "Variable"
             THEN variables' = [variables EXCEPT ![node[2]] = r] /\ UNCHANGED factors
             ELSE factors' = [factors EXCEPT ![node[2]] = r] /\ UNCHANGED variables
    /\ UNCHANGED <<model, messages, stack, log, last_set, nsets, engine, entered,
                   stored, tainted, lookup, algebra>>

NextBuild ==
    \/ PGM_from_string
    \/ \E node \in NodeRefs, neighbor \in NodeRefs : Node_add_neighbor(node, neighbor)

SpecBuild == InitBuild /\ [][NextBuild]_vars

\* What a neighbor list holds for a Factor is its position in the factor
\* list, for a Variable its name.
IsFactorRef(ref) == ToString(ref) \in {ToString(k) : k \in 1..Len(factors)}

IsVariableRef(ref) == ToString(ref) \in {ToString(n) : n \in DOMAIN variables}

Bipartite ==
    /\ \A n \in DOMAIN variables :
          \A j \in 1..Len(variables[n].neighbors) :
              IsFactorRef(variables[n].neighbors[j])
    /\ \A k \in 1..Len(factors) :
          \A j \in 1..Len(factors[k].neighbors) :
              IsVariableRef(factors[k].neighbors[j])

Added == ~IsNone(build.last_add)

SameKind == build.last_add.node[1] = build.last_add.neighbor[1]

(***************************************************************************)
(* C11.  In every state of the graph every neighbor of a Variable is a     *)
(* Factor and every neighbor of a Factor is a Variable; add_neighbor       *)
(* called with a node of the node's own kind raises AssertionError and     *)
(* leaves the neighbor list as it was, and called with a node of the other *)
(* kind it appends that node.                                              *)
(***************************************************************************)
C11_Bipartite ==
    /\ (Added /\ SameKind) =>
          /\ build.last_add.raised =
                Raise("AssertionError", NodeOf(build.last_add.node).name)
          /\ NodeOf(build.last_add.node).neighbors = build.last_add.before
    /\ (Added /\ ~SameKind) =>
          /\ IsNone(build.last_add.raised)
          /\ NodeOf(build.last_add.node).neighbors =
                Append(build.last_add.before, build.last_add.neighbor[2])
    /\ Bipartite

\* A Factor was offered to a Factor that has neighbors, after a call that
\* added a neighbor.
C11_Witness ==
    /\ Added /\ SameKind /\ build.adds = 2
    /\ build.last_add.node[1] = "Factor"
    /\ build.last_add.node # build.last_add.neighbor
    /\ Len(build.last_add.before) = 3
    /\ ~IsNone(build.last_add.raised)

C11_WitnessVariable ==
    /\ Added /\ SameKind
    /\ build.last_add.node[1] = "Variable"
    /\ build.last_add.before # <<>>
    /\ ~IsNone(build.last_add.raised)

(***************************************************************************)
(* C12.  When PGM.from_string has returned the graph, every Factor F       *)
(* occurs in the neighbor list of every Variable V as many times as V      *)
(* occurs in the neighbor list of F.                                       *)
(***************************************************************************)
Occurrences(seq, x) == Cardinality({j \in 1..Len(seq) : seq[j] = x})

Symmetric ==
    \A n \in DOMAIN variables, k \in 1..Len(factors) :
        Occurrences(variables[n].neighbors, k) = Occurrences(factors[k].neighbors, n)

C12_SymmetricEdges ==
    (build.status = "built" /\ build.adds = 0) =>
        /\ Symmetric
        /\ factors # <<>>
        /\ \A k \in 1..Len(factors) : factors[k].neighbors # <<>>

\* A built graph with an edge that occurs twice and one that occurs once.
C12_Witness ==
    /\ build.status = "built" /\ build.adds = 0 /\ model = RepeatedModel
    /\ Occurrences(variables["a"].neighbors, 1) = 2
    /\ Occurrences(factors[2].neighbors, "b") = 1

(***************************************************************************)
(* A session on the small graphs, in which names that are no variable's    *)
(* are looked up and set_distributions is called once more than in Spec,   *)
(* before, between and after the marginal calls.                           *)
(***************************************************************************)
InitSession ==
    /\ Init
    /\ model \in {PairModel, ForestModel}

\* Names no Variable has: one that names nothing and a Factor's name.
UnknownNames == {"zz", factors[1].name}

\* m.marginal(pgm.variable_from_name(var_name)) for a name that is not in
\* pgm._variables: the lookup raises before marginal is called.
PGM_variable_from_name(var_name) ==
    /\ ~Running
    /\ var_name \notin DOMAIN variables
    /\ LET r == variable_from_name(variables, var_name)
       IN lookup' = [var_name |-> var_name,
                     raised   |-> IF IsError(r) THEN r ELSE None]
    /\ UNCHANGED <<model, factors, variables, messages, stack, log, last_set,
                   nsets, engine, entered, stored, tainted, build, algebra>>

\* pgm.set_distributions(data), also when it was called before.
PGM_set_distributions_again(data) ==
    /\ ~Running
    /\ nsets <= MaxSets
    /\ Assigned(data)

NextSession ==
    \/ \E v \in DOMAIN variables : marginal(v)
    \/ Step
    \/ \E data \in DataPool(model) : PGM_set_distributions_again(data)
    \/ Messages_init
    \/ \E var_name \in UnknownNames : PGM_variable_from_name(var_name)

SpecSession == InitSession /\ [][NextSession]_vars

(***************************************************************************)
(* C13.  Looking up a name that is not a variable of the graph raises      *)
(* KeyError for that name; the marginal call it was the argument of does   *)
(* not begin, and the graph and the message cache are left as they were.   *)
(***************************************************************************)
C13_State ==
    ~IsNone(lookup) =>
        /\ lookup.var_name \notin DOMAIN variables
        /\ lookup.raised = Raise("KeyError", lookup.var_name)

C13_Step ==
    lookup' # lookup =>
        /\ factors' = factors /\ variables' = variables
        /\ messages' = messages
        /\ stack' = stack /\ log' = log

C13_UnknownVariable == [](C13_State) /\ [][C13_Step]_vars

\* A Factor's name was looked up while the engine held messages.
C13_Witness ==
    /\ ~IsNone(lookup) /\ lookup.var_name = "p(h1)"
    /\ ~IsNone(lookup.raised)
    /\ Len(messages) = 3 /\ AllAssigned /\ model = PairModel

(***************************************************************************)
(* C14.  A marginal call that begins to compute the message of a factor    *)
(* whose data is None ends there with AttributeError: the factor's message *)
(* is the last the call entered, nothing of that factor is stored, and the *)
(* call returns no marginal.  No call returns a marginal for a variable    *)
(* that is linked, over any path, to a factor whose data is None.          *)
(***************************************************************************)
Unset(k) == IsNone(factors[k].data)

\* The factors without data whose message the last call began to compute.
UnsetEntered ==
    {k \in FactorIds : Unset(k) /\ \E j \in 1..Len(entered) :
                                      entered[j][1] = factors[k].name}

\* The factors without data in the part of the graph that holds variable v.
UnsetNear(v) ==
    {k \in FactorIds : Unset(k) /\ SeqToSet(factors[k].neighbors) \cap ReachVars({v}) # {}}

C14_UnsetFactorFails ==
    /\ Running => UnsetEntered = {}
    /\ (~Running /\ log # <<>> /\ UnsetEntered # {}) =>
          /\ ~Returned(LastLog)
          /\ LastLog.value.error = "AttributeError"
          /\ \E k \in UnsetEntered :
                /\ entered[Len(entered)][1] = factors[k].name
                /\ LastLog.value.what = factors[k].name
          /\ \A k \in UnsetEntered :
                \A key \in Keys(messages) : key[1] # factors[k].name
    /\ (~Running /\ log # <<>> /\ UnsetNear(LastLog.variable) # {}) =>
          ~Returned(LastLog)

\* marginal(h1) on the chain with two factors assigned: p(h1)'s message was
\* stored before the call came to p(v2|h2), three factors away.
C14_Witness ==
    /\ ~Running /\ log # <<>> /\ model = ChainModel
    /\ LastLog.variable = "h1" /\ ~Returned(LastLog)
    /\ UnsetEntered # {} /\ Len(entered) = 4
    /\ entered[4] = <<"p(v2|h2)", "h2">>
    /\ Len(messages) = 1

(***************************************************************************)
(* C15.  Every Distribution a factor holds has as many axis names as its   *)
(* array has dimensions, and no axis name twice.                           *)
(***************************************************************************)
WellLabelled(dist) ==
    /\ Len(dist.axes_labels) = ndim(dist.probs)
    /\ NoRepeat(dist.axes_labels)

C15_LabelsMatchRank ==
    \A k \in FactorIds : ~Unset(k) => WellLabelled(factors[k].data)

(***************************************************************************)
(* C16.  Whatever marginal calls have run or are running, every factor     *)
(* holds the Distribution (array and labels) that set_distributions        *)
(* attached to it, or None when none was attached: the multiplications of  *)
(* the message computation write to neither operand.                       *)
(***************************************************************************)
\* The factor list as the set_distributions calls left it.
AsAssigned ==
    IF Called THEN set_distributions(last_set.before, last_set.data).factors
    ELSE parse_model_into_variables_and_factors(model).factors

C16_InferenceKeepsData ==
    /\ factors = AsAssigned
    /\ \A k \in FactorIds :
          \/ Unset(k)
          \/ Called /\ HasEntry(k) /\ factors[k].data = Given(k)
          \/ Called /\ factors[k].data = last_set.before[k].data

\* Two calls have returned on the chain and filled the cache; messages were
\* multiplied into the tables of the three two-variable factors.
C16_Witness ==
    /\ ~Running /\ Len(log) = 2 /\ Returned(log[1]) /\ Returned(log[2])
    /\ model = ChainModel /\ AllAssigned /\ CurrentData = ChainWeights
    /\ Len(stored) > 7
    /\ \E k \in 1..Len(stored) : stored[k] = <<"p(h2|h1)", "h2">>
    /\ \E k \in 1..Len(stored) : stored[k] = <<"p(h2|h1)", "h1">>

(***************************************************************************)
(* C17.  A factor that holds a Distribution keeps it: no set_distributions *)
(* call replaces the Distribution a factor held when the call began.       *)
(***************************************************************************)
C17_WriteOnce ==
    Called =>
        \A k \in FactorIds :
            ~IsNone(last_set.before[k].data) =>
                factors[k].data = last_set.before[k].data

(***************************************************************************)
(* The tensor algebra on its own: a Distribution and one of its axis names *)
(* are chosen, then every axis but that one is summed out and the result   *)
(* normalised.                                                             *)
(***************************************************************************)
\* The arrays of n entries k/den, k in S.
Vectors(n, S, den) ==
    {np_array1(xs, den) : xs \in [1..n -> S]}

\* The arrays of r rows and c columns with entries k/den, k in S.
Matrices(r, c, S, den) ==
    {np_array2(rows, den) : rows \in [1..r -> [1..c -> S]]}

AlgebraInputs ==
    {[dist |-> Distribution(a, <<"x">>), axis |-> "x"] :
        a \in Vectors(2, 0..4, 4) \cup Vectors(3, 0..2, 2)}
    \cup {[dist |-> Distribution(a, labels), axis |-> "x"] :
            a \in Matrices(2, 2, 0..2, 2) \cup Matrices(2, 3, 0..1, 1),
            labels \in {<<"x", "y">>, <<"y", "x">>}}
    \cup {[dist |-> d, axis |-> x] :
            d \in {p3_v1_given_h0_h1,
                   CommonEffectDataPermuted["p(v1|h0,h1)"]},
            x \in {"v1", "h0", "h1"}}
    \cup {[dist |-> p_h1, axis |-> "h1"], [dist |-> p3_h1, axis |-> "h1"]}

InitAlgebra ==
    /\ model = PairModel
    /\ LET g == parse_model_into_variables_and_factors(model)
       IN factors = g.factors /\ variables = g.variables
    /\ build = Built
    /\ messages = <<>>
    /\ stack = <<>>
    /\ log = <<>>
    /\ last_set = None
    /\ nsets = 0
    /\ engine = 0
    /\ entered = <<>>
    /\ stored = <<>>
    /\ tainted = FALSE
    /\ lookup = None
    /\ \E input \in AlgebraInputs :
          algebra = [dist |-> input.dist, axis |-> input.axis, out |-> None]

\* sum_out over every axis except keep_axis, then normalize.
sum_out_normalize(dist, keep_axis) ==
    LET normalized(summed) == IF IsError(summed) THEN summed ELSE normalize(summed)
    IN ByValue1(normalized, factor_message_value(dist, keep_axis))

Distribution_sum_out_normalize ==
    /\ IsNone(algebra.out)
    /\ algebra' = [algebra EXCEPT !.out = sum_out_normalize(algebra.dist, algebra.axis)]
    /\ UNCHANGED <<model, factors, variables, messages, stack, log, last_set,
                   nsets, engine, entered, stored, tainted, build, lookup>>

NextAlgebra == Distribution_sum_out_normalize

SpecAlgebra == InitAlgebra /\ [][NextAlgebra]_vars

\* dist.is_valid_conditional(variable_name) returned True.
ValidConditional(dist, variable_name) ==
    LET r == is_valid_conditional(dist, variable_name)
    IN ~IsError(r) /\ r.value

\* The entries of dist summed for each value of the axis named keep_axis,
\* divided by the sum of all entries.
AxisShare(dist, keep_axis) ==
    LET p     == get_axes(dist)[keep_axis]
        total == np_sum(dist.probs)
    IN [shape |-> <<dist.probs.shape[p]>>,
        vals  |-> [i \in Indices(<<dist.probs.shape[p]>>) |->
                     RDiv(RSumOver(dist.probs.vals,
                                   {j \in Indices(dist.probs.shape) : j[p] = i[1]}),
                          total)]]

Reduced == ~IsNone(algebra) /\ ~IsNone(algebra.out)

(***************************************************************************)
(* C18.  For a Distribution T of one axis X whose entries sum to 1,        *)
(* summing out every axis but X and normalising gives T's array again.     *)
(* For every Distribution that is a valid conditional over X               *)
(* (is_valid_conditional), it gives an array whose entries sum to 1; when  *)
(* the Distribution has one distinct name per dimension that array has     *)
(* one axis, X's, and holds for each value of X its share of the total.    *)
(***************************************************************************)
C18_SumOutNormalize ==
    Reduced =>
        /\ (/\ algebra.dist.axes_labels = <<algebra.axis>>
            /\ ndim(algebra.dist.probs) = 1
            /\ is_valid_joint(algebra.dist)) =>
              algebra.out = algebra.dist.probs
        /\ ValidConditional(algebra.dist, algebra.axis) =>
              /\ ~IsError(algebra.out)
              /\ np_sum(algebra.out) = ROne
              /\ WellLabelled(algebra.dist) =>
                    algebra.out = AxisShare(algebra.dist, algebra.axis)

\* A table of two rows and three columns, valid as a conditional over its
\* second axis, was reduced to that axis.
C18_Witness ==
    /\ Reduced
    /\ algebra.dist.axes_labels = <<"y", "x">>
    /\ algebra.dist.probs.shape = <<2, 3>>
    /\ ValidConditional(algebra.dist, algebra.axis)
    /\ algebra.out.shape = <<3>>
    /\ algebra.out # np_array1(<<1, 1, 1>>, 3)

\* A normalised one-axis table with a zero entry came back as it was.
C18_WitnessOneAxis ==
    /\ Reduced
    /\ algebra.dist.probs = np_array1(<<0, 1, 1>>, 2)
    /\ algebra.out = algebra.dist.probs

(***************************************************************************)
(* The messages of the cache, read against the graph.                      *)
(***************************************************************************)
FactorNamed(name) == CHOOSE k \in FactorIds : factors[k].name = name

IsFactorName(name) == \E k \in FactorIds : factors[k].name = name

\* The factors next to variable v, in the order of its list, without the
\* factor named f.
OtherFactors(v, f) ==
    SelectSeq(variables[v].neighbors, LAMBDA k : factors[k].name # f)

\* The variables next to factor k, in the order of its list, without v.
OtherVariables(k, v) ==
    SelectSeq(factors[k].neighbors, LAMBDA u : u # v)

RECURSIVE RProduct(_)
RProduct(qs) ==
    IF qs = <<>> THEN ROne ELSE RMul(Head(qs), RProduct(Tail(qs)))

\* The entry of a message at value d of its variable; a scalar message has
\* one entry for every value.
MessageAt(message, d) ==
    IF message.shape = <<>> THEN message.vals[<<>>] ELSE message.vals[<<d>>]

\* The key stored last by the engine, and the value the cache holds for it.
LastStored == stored[Len(stored)]

(***************************************************************************)
(* C19.  The message the cache holds for (V, F), V a variable, is the      *)
(* entry-by-entry product of the cached messages (G, V) of the factors G   *)
(* next to V other than F, all of which are cached; it is the scalar 1     *)
(* when V has no factor but F, as ('v1', 'p(v1|h1)') on the chain.         *)
(***************************************************************************)
C19_Holds(key) ==
    LET v        == key[1]
        others   == OtherFactors(v, key[2])
        incoming == [j \in 1..Len(others) |->
                        Lookup(messages, <<factors[others[j]].name, v>>)]
        value    == Lookup(messages, key)
    IN /\ IsFactorName(key[2])
       /\ FactorNamed(key[2]) \in SeqToSet(variables[v].neighbors)
       /\ \A j \in 1..Len(others) :
             HasKey(messages, <<factors[others[j]].name, v>>)
       /\ IF others = <<>> THEN value = np_scalar(ROne)
          ELSE /\ value.shape = incoming[1].shape
               /\ \A i \in Indices(value.shape) :
                     value.vals[i] =
                        RProduct([j \in 1..Len(others) |-> incoming[j].vals[i]])

C19_VariableMessage ==
    /\ \A m \in 1..Len(messages) :
          messages[m].key[1] \in VarNames => C19_Holds(messages[m].key)
    /\ (model = ChainModel /\ HasKey(messages, <<"v1", "p(v1|h1)">>)) =>
          Lookup(messages, <<"v1", "p(v1|h1)">>) = np_scalar(ROne)

\* On the chain the cache holds the leaf's scalar 1 and h1's message to
\* p(h2|h1), the product of two messages that is neither of them.
C19_Witness ==
    /\ model = ChainModel /\ CurrentData = ChainWeights /\ ~tainted
    /\ HasKey(messages, <<"v1", "p(v1|h1)">>)
    /\ HasKey(messages, <<"h1", "p(h2|h1)">>)
    /\ Lookup(messages, <<"h1", "p(h2|h1)">>) # Lookup(messages, <<"p(h1)", "h1">>)
    /\ Lookup(messages, <<"h1", "p(h2|h1)">>) # Lookup(messages, <<"p(v1|h1)", "h1">>)

(***************************************************************************)
(* C20.  The message the engine stores for (F, V), F a factor whose data   *)
(* is what it was computed from, has one axis, of the length of V's axis   *)
(* in F's table wherever that axis is; its entry for a value x of V is the *)
(* sum, over the values of F's other variables, of the table's entry times *)
(* the cached messages (U, F) of those variables at their values.          *)
(***************************************************************************)
\* The length of the axis named u in the table.
AxisLength(dist, u) == dist.probs.shape[get_axes(dist)[u]]

\* The table's entries times the messages of the variables in `others`,
\* summed over the values of those in free; a holds the values chosen.
RECURSIVE SumTimesMessages(_, _, _, _)
SumTimesMessages(k, others, free, a) ==
    IF free = {}
    THEN RMul(TableAt(factors[k].data, a),
              RProduct([j \in 1..Len(others) |->
                          MessageAt(Lookup(messages, <<others[j], factors[k].name>>),
                                    a[others[j]])]))
    ELSE LET u == CHOOSE x \in free : TRUE
             RECURSIVE Over(_)
             Over(d) == IF d = 0 THEN RZero
                        ELSE RAdd(SumTimesMessages(k, others, free \ {u}, (u :> d) @@ a),
                                  Over(d - 1))
         IN Over(AxisLength(factors[k].data, u))

C20_Holds(key) ==
    LET k      == FactorNamed(key[1])
        v      == key[2]
        others == OtherVariables(k, v)
        value  == Lookup(messages, key)
    IN /\ v \in SeqToSet(factors[k].neighbors)
       /\ \A j \in 1..Len(others) : HasKey(messages, <<others[j], factors[k].name>>)
       /\ value.shape = <<AxisLength(factors[k].data, v)>>
       /\ \A x \in 1..AxisLength(factors[k].data, v) :
             value.vals[<<x>>] =
                SumTimesMessages(k, others, SeqToSet(others), (v :> x))

C20_FactorMessage ==
    (stored # <<>> /\ ~tainted /\ IsFactorName(LastStored[1])) =>
        C20_Holds(LastStored)

\* Stored last: the message of the three-variable factor to its second
\* variable, and the message of a chain factor to the variable of its second
\* axis, both from messages that are no scalars.
C20_Witness ==
    /\ stored # <<>> /\ ~tainted /\ model = CommonEffectModel
    /\ LastStored = <<"p(v1|h0,h1)", "h0">>
    /\ CurrentData = CommonEffectDataPermuted
    /\ Lookup(messages, LastStored).shape = <<2>>

C20_WitnessChain ==
    /\ stored # <<>> /\ ~tainted /\ model = ChainModel
    /\ LastStored = <<"p(h2|h1)", "h2">>
    /\ CurrentData = ChainWeights
    /\ Lookup(messages, <<"h1", "p(h2|h1)">>).shape = <<2>>

(***************************************************************************)
(* multiply on its own: two Distributions are chosen and multiplied once.  *)
(***************************************************************************)
\* The first operands: one, two and three axes.
MultiplyTargets ==
    {Distribution(a, <<"x">>) : a \in Vectors(2, 0..2, 2) \cup Vectors(3, 0..1, 1)}
    \cup {Distribution(a, labels) :
            a \in Matrices(2, 3, 0..1, 1),
            labels \in {<<"x", "y">>, <<"y", "x">>}}
    \cup {p3_h1, p3_v1_given_h1, p3_v1_given_h0_h1,
          CommonEffectDataPermuted["p(v1|h0,h1)"]}

\* The second operands: arrays of one axis under every name in use and one
\* that is not, and arrays of no axis, np.array(1.0), with and without a name.
MultiplyFactors ==
    {Distribution(a, <<name>>) :
        a \in {np_array1(<<1, 1>>, 2), np_array1(<<1, 3>>, 4),
               np_array1(<<0, 1, 1>>, 2), p3_h1.probs},
        name \in {"x", "y", "v1", "h0", "h1", "zz"}}
    \cup {Distribution(np_scalar(q), labels) :
            q \in {ROne, Rat(1, 2)},
            labels \in {<<>>, <<"x">>, <<"zz">>}}

InitMultiply ==
    /\ model = PairModel
    /\ LET g == parse_model_into_variables_and_factors(model)
       IN factors = g.factors /\ variables = g.variables
    /\ build = Built
    /\ messages = <<>>
    /\ stack = <<>>
    /\ log = <<>>
    /\ last_set = None
    /\ nsets = 0
    /\ engine = 0
    /\ entered = <<>>
    /\ stored = <<>>
    /\ tainted = FALSE
    /\ lookup = None
    /\ \E T \in MultiplyTargets, U \in MultiplyFactors :
          algebra = [p_v_given_h |-> T, p_hi |-> U, out |-> None, operands |-> None]

\* out = multiply(p_v_given_h, p_hi); operands: the two arguments afterwards.
multiply_call ==
    /\ IsNone(algebra.out)
    /\ \E product \in {multiply(algebra.p_v_given_h, algebra.p_hi)} :
          algebra' = [algebra EXCEPT
                        !.out = product,
                        !.operands = IF IsError(product)
                                     THEN <<algebra.p_v_given_h, algebra.p_hi>>
                                     ELSE multiply_operands(algebra.p_v_given_h,
                                                            algebra.p_hi)]
    /\ UNCHANGED <<model, factors, variables, messages, stack, log, last_set,
                   nsets, engine, entered, stored, tainted, build, lookup>>

NextMultiply == multiply_call

SpecMultiply == InitMultiply /\ [][NextMultiply]_vars

Multiplied == ~IsNone(algebra) /\ ~IsNone(algebra.out)

\* p_hi has one axis, named by a name of p_v_given_h, of that axis's length;
\* p_v_given_h has one distinct name per dimension.
OneAxisOf(T, U) ==
    /\ WellLabelled(T)
    /\ WellLabelled(U)
    /\ ndim(U.probs) = 1
    /\ U.axes_labels[1] \in DOMAIN get_axes(T)
    /\ U.probs.shape[1] = T.probs.shape[get_axes(T)[U.axes_labels[1]]]

(***************************************************************************)
(* C21.  For a Distribution T and a Distribution U of one axis whose name  *)
(* a is one of T's (with the length of T's axis a), multiply(T, U) returns *)
(* a Distribution with T's axis names and T's shape whose entry at every   *)
(* index i is T[i] * U[i_a], wherever a sits among T's axes; T and U are   *)
(* as they were.                                                           *)
(***************************************************************************)
C21_MultiplyBroadcasts ==
    (Multiplied /\ OneAxisOf(algebra.p_v_given_h, algebra.p_hi)) =>
        LET T == algebra.p_v_given_h
            U == algebra.p_hi
            a == get_axes(T)[U.axes_labels[1]]
        IN /\ ~IsError(algebra.out)
           /\ algebra.out.axes_labels = T.axes_labels
           /\ algebra.out.probs.shape = T.probs.shape
           /\ \A i \in Indices(T.probs.shape) :
                 algebra.out.probs.vals[i] = RMul(T.probs.vals[i], U.probs.vals[<<i[a]>>])
           /\ algebra.operands = <<T, U>>

\* The notebook's product of p(v1|h1) and p(h1), the name on the last axis.
C21_Witness ==
    /\ Multiplied
    /\ algebra.p_v_given_h = p3_v1_given_h1
    /\ algebra.p_hi = p3_h1
    /\ algebra.out.probs = np_array2(<<<<24, 24, 9>>, <<36, 6, 1>>>>, 100)

\* The name on the middle axis of a table of three axes.
C21_WitnessMiddle ==
    /\ Multiplied
    /\ algebra.p_v_given_h = p3_v1_given_h0_h1
    /\ algebra.p_hi.axes_labels = <<"h0">>
    /\ OneAxisOf(algebra.p_v_given_h, algebra.p_hi)
    /\ algebra.out.probs.shape = <<2, 2, 3>>
    /\ algebra.out.probs # algebra.p_v_given_h.probs

\* The name on the first axis of a table of two axes.
C21_WitnessFirst ==
    /\ Multiplied
    /\ algebra.p_v_given_h.axes_labels = <<"x", "y">>
    /\ algebra.p_hi = Distribution(np_array1(<<1, 3>>, 4), <<"x">>)
    /\ algebra.out.probs.shape = <<2, 3>>
    /\ algebra.out.probs.vals[<<2, 3>>] = Rat(3, 4)

\* Every entry of T times the one number of U, under T's labels and shape.
Scaled(out, T, U) ==
    /\ ~IsError(out)
    /\ out.axes_labels = T.axes_labels
    /\ out.probs.shape = T.probs.shape
    /\ \A i \in Indices(T.probs.shape) :
          out.probs.vals[i] = RMul(T.probs.vals[i], U.probs.vals[<<>>])

(***************************************************************************)
(* C22.  multiply(T, U) with U an array of no axis and no axis name        *)
(* returns T with every entry multiplied by U's number, under T's labels   *)
(* and shape.                                                              *)
(***************************************************************************)
C22_ScalarScales ==
    (/\ Multiplied
     /\ algebra.p_hi.probs.shape = <<>>
     /\ algebra.p_hi.axes_labels = <<>>) =>
        Scaled(algebra.out, algebra.p_v_given_h, algebra.p_hi)

\* What the code does with a scalar: it needs a name, and one of T's.
C22_ScalarNeedsName ==
    (Multiplied /\ algebra.p_hi.probs.shape = <<>>) =>
        /\ algebra.p_hi.axes_labels = <<>> =>
              IsError(algebra.out) /\ algebra.out.error = "StopIteration"
        /\ (/\ algebra.p_hi.axes_labels # <<>>
            /\ algebra.p_hi.axes_labels[1] \in DOMAIN get_axes(algebra.p_v_given_h)) =>
              Scaled(algebra.out, algebra.p_v_given_h, algebra.p_hi)

(***************************************************************************)
(* C23.  multiply(T, U) raises KeyError and returns nothing whenever the   *)
(* one axis name of U is none of T's axis names; T and U are as they were. *)
(***************************************************************************)
C23_MissingAxisFails ==
    (/\ Multiplied
     /\ Len(algebra.p_hi.axes_labels) = 1
     /\ algebra.p_hi.axes_labels[1] \notin SeqToSet(algebra.p_v_given_h.axes_labels)) =>
        /\ IsError(algebra.out)
        /\ algebra.out.error = "KeyError"
        /\ algebra.out.what = algebra.p_hi.axes_labels[1]
        /\ algebra.operands = <<algebra.p_v_given_h, algebra.p_hi>>

\* p(h1) under the name of a variable p(v1|h1) does not have.
C23_Witness ==
    /\ Multiplied
    /\ algebra.p_v_given_h = p3_v1_given_h1
    /\ algebra.p_hi = Distribution(p3_h1.probs, <<"h0">>)
    /\ IsError(algebra.out)

(***************************************************************************)
(* The names a model string declares and the names its factors refer to.   *)
(***************************************************************************)
\* The names on the left-hand side of some term.
Declared(m) ==
    UNION {SeqToSet(m[k].var_name) : k \in 1..Len(m)}

\* The names on either side of some term.
Referenced(m) ==
    UNION {SeqToSet(m[k].var_name \o m[k].given) : k \in 1..Len(m)}

(***************************************************************************)
(* C24.  PGM.from_string raises KeyError when a term refers to a name that *)
(* is on no term's left-hand side, and returns no graph; when it returns   *)
(* one, and whatever add_neighbor calls follow, every name in a Factor's   *)
(* neighbor list is a key of the variable mapping.                         *)
(***************************************************************************)
C24_UndeclaredFails ==
    /\ (build.status # "new" /\ Referenced(model) # Declared(model)) =>
          /\ build.status = "failed"
          /\ IsError(build.raised)
          /\ build.raised.error = "KeyError"
          /\ build.raised.what \in Referenced(model) \ Declared(model)
          /\ factors = <<>> /\ variables = <<>>
    /\ build.status = "built" =>
          /\ Referenced(model) = DOMAIN variables
          /\ \A k \in 1..Len(factors) :
                \A j \in 1..Len(factors[k].neighbors) :
                    ToString(factors[k].neighbors[j]) \in
                        {ToString(n) : n \in DOMAIN variables}

\* The undeclared name was met after a first factor had been linked.
C24_Witness ==
    /\ model = LateUndeclaredModel
    /\ build.status = "failed"
    /\ build.raised = Raise("KeyError", "b")

\* A graph was returned whose factor refers to three variables.
C24_WitnessBuilt ==
    /\ model = CommonEffectModel
    /\ build.status = "built"
    /\ \E k \in 1..Len(factors) : Len(factors[k].neighbors) = 3

(***************************************************************************)
(* Graphs with a loop: the parser builds them from terms that condition on *)
(* each other, and the engine is asked for marginals on them.              *)
(***************************************************************************)
\* "p(a|b)p(b|a)": a - p(a|b) - b - p(b|a) - a.
CycleModel ==
    <<ParsedTerm("p(a|b)", <<"a">>, <<"b">>),
      ParsedTerm("p(b|a)", <<"b">>, <<"a">>)>>

\* "p(a|b)p(b|a)p(c|a)": the loop with a variable hanging from it.
CycleTailModel ==
    <<ParsedTerm("p(a|b)", <<"a">>, <<"b">>),
      ParsedTerm("p(b|a)", <<"b">>, <<"a">>),
      ParsedTerm("p(c|a)", <<"c">>, <<"a">>)>>

\* "p(a|b)p(b|a)p(c)p(d|c)": the loop and, apart from it, a tree.
CycleApartModel ==
    <<ParsedTerm("p(a|b)", <<"a">>, <<"b">>),
      ParsedTerm("p(b|a)", <<"b">>, <<"a">>),
      ParsedTerm("p(c)", <<"c">>, <<>>),
      ParsedTerm("p(d|c)", <<"d">>, <<"c">>)>>

CycleModels == {CycleModel, CycleTailModel, CycleApartModel}

InitCycle ==
    /\ model \in CycleModels
    /\ LET g == parse_model_into_variables_and_factors(model)
       IN factors = g.factors /\ variables = g.variables
    /\ build = Built
    /\ NoSession

NextCycle ==
    \/ \E v \in DOMAIN variables : marginal(v)
    \/ Step
    \/ \E data \in {PlainData(model)} : PGM_set_distributions(data)
    \/ Messages_init

SpecCycle == InitCycle /\ [][NextCycle]_vars

\* The calls run on: Python executes the call synchronously.
FairSpecCycle == SpecCycle /\ WF_vars(Step)

\* The variable is in a part of the graph that has a loop.
OnCycle(v) ==
    \E e \in Stripped(Edges) : EdgeVar(e) \in ReachVars({v})

\* The call of log entry e was made on a loop's part of the graph when all
\* factors had data.
CycleRequest(e) == OnCycle(e.variable) /\ e.nsets > 0 /\ AllAssigned

\* A message_name was entered a second time.
Reentered == ~NoRepeat(entered)

C25_Safety ==
    /\ \A k \in 1..Len(log) :
          CycleRequest(log[k]) =>
              /\ ~Returned(log[k])
              /\ Done(log[k]) =>
                    log[k].value = Raise("RecursionError",
                                         "maximum recursion depth exceeded")
    /\ (Running /\ CycleRequest(LastLog)) =>
          /\ \A d \in 1..Len(stack) :
                stack[d].fn # "marginal" => ~HasKey(messages, FrameKey(stack[d]))
          /\ \A i, j \in 1..Len(entered) :
                (i < j /\ entered[i] = entered[j]) =>
                    /\ ~HasKey(messages, entered[i])
                    /\ \E d \in 1..Len(stack) :
                          stack[d].fn # "marginal" /\ FrameKey(stack[d]) = entered[i]

C25_Live ==
    (Running /\ CycleRequest(LastLog)) ~> (Len(stack) = MaxDepth /\ Reentered)

(***************************************************************************)
(* C25.  On a graph with a loop the engine does not notice the loop: a     *)
(* marginal call made on the loop's part of the graph, all factors holding *)
(* data, enters the computation of a message whose computation is still    *)
(* running (its message_name is not in the cache, which is written only    *)
(* when a computation returns), goes as deep as the depth limit lets it,   *)
(* whatever the limit, and never returns a marginal.                       *)
(***************************************************************************)
C25_CycleNeverReturns == []C25_Safety /\ C25_Live

\* The call on the variable hanging from the loop is at the depth limit and
\* has entered p(a|b) -> a twice.
C25_Witness ==
    /\ model = CycleTailModel
    /\ Running /\ CycleRequest(LastLog) /\ LastLog.variable = "c"
    /\ Len(stack) = MaxDepth
    /\ Cardinality({i \in 1..Len(entered) : entered[i] = <<"p(a|b)", "a">>}) >= 2

\* The tree beside the loop was answered, the loop was not.
C25_WitnessApart ==
    /\ model = CycleApartModel
    /\ Len(log) = 2 /\ ~Running
    /\ log[1].variable = "d" /\ Returned(log[1])
    /\ log[2].variable = "a" /\ CycleRequest(log[2]) /\ Done(log[2])

(***************************************************************************)
(* The order of the cache: self.messages is a dict, which keeps its keys   *)
(* in the order they were first assigned.                                  *)
(***************************************************************************)
\* The message_names the message named key is computed from.
DependsOn(key) ==
    IF key[1] \in VarNames
    THEN {<<factors[k].name, key[1]>> : k \in SeqToSet(OtherFactors(key[1], key[2]))}
    ELSE {<<u, key[1]>> : u \in SeqToSet(OtherVariables(FactorNamed(key[1]), key[2]))}

\* The keys of the cache in their order.
KeyOrder == [k \in 1..Len(messages) |-> messages[k].key]

\* m.messages after m.marginal(pgm.variable_from_name('v2')) on the chain.
ChainOrder ==
    << <<"p(h1)", "h1">>, <<"v1", "p(v1|h1)">>, <<"p(v1|h1)", "h1">>,
       <<"h1", "p(h2|h1)">>, <<"p(h2|h1)", "h2">>, <<"h2", "p(v2|h2)">>,
       <<"p(v2|h2)", "v2">> >>

(***************************************************************************)
(* C26.  Every message in the cache stands after all the messages it is    *)
(* computed from: for (A, B), the messages (X, A) of every neighbor X of A  *)
(* other than B.  When the first call on the chain's engine was            *)
(* marginal(v2) and it returned, the cache begins with ('p(h1)', 'h1'),    *)
(* ('v1', 'p(v1|h1)'), ('p(v1|h1)', 'h1'), ('h1', 'p(h2|h1)'),             *)
(* ('p(h2|h1)', 'h2'), ('h2', 'p(v2|h2)'), ('p(v2|h2)', 'v2').             *)
(***************************************************************************)
C26_DependencyOrder ==
    /\ \A m \in 1..Len(messages) :
          \A dep \in DependsOn(messages[m].key) :
              \E n \in 1..(m - 1) : messages[n].key = dep
    /\ (/\ model = ChainModel /\ log # <<>>
        /\ log[1].variable = "v2" /\ Returned(log[1])
        /\ log[1].engine = engine) =>
          /\ Len(messages) >= 7
          /\ SubSeq(KeyOrder, 1, 7) = ChainOrder

\* The chain's cache after marginal(v2) alone.
C26_Witness ==
    /\ model = ChainModel /\ Len(log) = 1
    /\ log[1].variable = "v2" /\ Returned(log[1])
    /\ KeyOrder = ChainOrder

\* A cache filled by two calls, the second adding to what the first left.
C26_WitnessTwoCalls ==
    /\ model = ChainModel /\ Len(log) = 2 /\ ~Running
    /\ log[1].engine = engine /\ log[2].engine = engine
    /\ log[1].variable = "v1" /\ log[2].variable = "v2"
    /\ Len(messages) > log[1].cache_after
    /\ log[1].cache_after > 0

(***************************************************************************)
(* C27.  Whatever the engine answered before, under whatever data, the     *)
(* value marginal(V) returns on a loop-free graph is the reference         *)
(* marginal of V under the data the factors of V's graph hold at the call. *)
(***************************************************************************)
C27_DeterminedByGraph ==
    (/\ log # <<>> /\ ~Running /\ Done(LastLog) /\ Current(LastLog)
     /\ Acyclic /\ Validated /\ GrandTotal # RZero) =>
        /\ Returned(LastLog)
        /\ LastLog.value = ReferenceMarginal(LastLog.variable)

\* What the code does: a call made when the cache held messages computed
\* under other data returns what those messages give.
C27_StaleCache ==
    /\ Len(log) = 2 /\ ~Running /\ Current(log[2]) /\ log[2].tainted
    /\ Acyclic /\ Validated /\ GrandTotal # RZero
    /\ log[1].variable = log[2].variable
    /\ Returned(log[1]) /\ Returned(log[2])
    /\ log[2].value = log[1].value
    /\ log[2].value # ReferenceMarginal(log[2].variable)

(***************************************************************************)
(* C28.  A marginal call that ends with an exception leaves the cache with *)
(* the entries it had when the call began.                                 *)
(***************************************************************************)
C28_FailureKeepsCache ==
    \A k \in 1..Len(log) :
        log[k].status = "raised" => log[k].cache_after = log[k].cache_before

\* What the code does: the messages computed before the failing step stay.
C28_PartialCache ==
    /\ Len(log) = 1 /\ ~Running
    /\ log[1].status = "raised" /\ log[1].value.error = "AttributeError"
    /\ log[1].cache_before = 0
    /\ Len(messages) = log[1].cache_after
    /\ HasKey(messages, <<"p(h1)", "h1">>)

====
